---- MODULE Spec2Model ----
(***************************************************************************)
(* Orbit Shield backend: the orbital proximity and risk-assessment engine. *)
(*                                                                         *)
(* The engine is a set of stateless functions (core/ai, core/orbital) and  *)
(* one stateful loop, the catalog-wide conjunction scan                    *)
(* (services/collision_service.py).  The functions are modelled as         *)
(* operators and exercised by call actions that record the call and its    *)
(* result (specification Spec); the scan is modelled step by step          *)
(* (specification SpecScan); the /ws/risks broadcaster (api/risk_stream.py)*)
(* is modelled step by step around the scan, with the subscriber as its    *)
(* environment (specifications SpecStream and SpecStreamFair).  The        *)
(* requests that write to the two stores, Supabase and the SQLite cache    *)
(* (api/alerts.py, api/maneuvers.py and their services), are modelled one  *)
(* handler per step (specification SpecStore), and the cache itself        *)
(* (config/local_cache.py) once more under threads, one step per stretch   *)
(* of a call between two uses of its lock (specifications SpecCache and    *)
(* SpecCacheFair).                                                         *)
(*                                                                         *)
(* Numbers.  The code computes in IEEE doubles; the model computes in      *)
(* integers:                                                               *)
(*   - scalar distances and altitude differences in metres (Km = 1000),    *)
(*   - scalar speeds in m/s (Kmps = 1000),                                 *)
(*   - angles in whole degrees, times in whole seconds,                    *)
(*   - scores and factors in units of 1/FP (FP = 10^4),                    *)
(*   - vector components as integers, and quotients of them as exact       *)
(*     rationals <<numerator, denominator>>; distances between points are  *)
(*     kept as squares.  The rounding of doubles is not modelled, except   *)
(*     where a section says so.                                            *)
(***************************************************************************)
EXTENDS Integers, Sequences, FiniteSets, TLC

VARIABLES
    op,                \* the engine function most recently called
    args,              \* its arguments
    ret,               \* its result
    satellites,        \* scan: the satellite catalog fetched at line 27
    debris_list,       \* scan: the debris catalog fetched at line 28
    sat_i,             \* scan: index of the satellite of the outer loop
    deb_j,             \* scan: index of the debris of the inner loop
    collision_events,  \* scan: the list built by the loops, then sorted
    pc,                \* scan: "idle", "loop", "returned" or "raised"
    raised,            \* scan: the exception that left the scan, or "none"
    stream_pc,         \* broadcaster: "idle", "accept", "tick", "scan", "sleep" or "done"
    ws_client,         \* broadcaster: the subscriber's end, "connected" or "disconnected"
    payload,           \* broadcaster: the payload built last (line 40), or None
    caught,            \* broadcaster: the exception that ended the loop, or "none"
    close_code,        \* broadcaster: the code of websocket.close, or None
    result_used,       \* broadcaster: the result of the last scan went into a payload
    remote,            \* store: the Supabase tables, table -> (id -> record)
    cache,             \* store: the SQLite tables of LocalCache, table -> rows in rowid order
    lock,              \* cache: the thread holding _lock, or None
    thread_pc,         \* cache: where each thread is in its LocalCache call
    thread_call        \* cache: the LocalCache call of each thread, and its result

vars == <<op, args, ret, satellites, debris_list, sat_i, deb_j,
          collision_events, pc, raised, stream_pc, ws_client, payload, caught,
          close_code, result_used, remote, cache, lock, thread_pc, thread_call>>

callVars == <<op, args, ret>>
scanVars == <<satellites, debris_list, sat_i, deb_j, collision_events, pc, raised>>
streamVars == <<stream_pc, ws_client, payload, caught, close_code, result_used>>
threadVars == <<lock, thread_pc, thread_call>>
storeVars == <<remote, cache, lock, thread_pc, thread_call>>

----------------------------------------------------------------------------
(* Units and small helpers *)

Km == 10^3
Kmps == 10^3
FP == 10^4

None == <<>>
Some(v) == <<v>>
IsNone(o) == o = <<>>
Val(o) == o[1]

\* the tables the cache and the services below use (local_cache.py:15-68)
Tables == {"alerts", "maneuvers"}

MaxThreads == 2

Threads == 1..MaxThreads

Max(a, b) == IF a >= b THEN a ELSE b
Min(a, b) == IF a <= b THEN a ELSE b
Abs(a) == IF a >= 0 THEN a ELSE -a

\* dict.get(key, default)
Get(d, key, default) == IF key \in DOMAIN d THEN d[key] ELSE default

RECURSIVE SeqsUpTo(_, _)
SeqsUpTo(S, n) ==
    IF n = 0 THEN {<<>>}
    ELSE LET shorter == SeqsUpTo(S, n - 1)
         IN  shorter \cup {Append(s, x) : s \in {t \in shorter : Len(t) = n - 1}, x \in S}

----------------------------------------------------------------------------
(* math.exp on a non-positive argument, to 1/FP.                           *)
(* exp(-x) = 2^(-k) * exp(-r) with x = k ln 2 + r, 0 <= r < ln 2, and      *)
(* exp(-r) by its Taylor series.  x and the result are in units of 1/FP.   *)

Ln2 == 6931
ExpTerms == 8

RECURSIVE TaylorExpNeg(_, _, _)
TaylorExpNeg(r, n, term) ==
    IF n > ExpTerms \/ term = 0 THEN 0
    ELSE (IF n % 2 = 0 THEN term ELSE -term)
         + TaylorExpNeg(r, n + 1, (term * r) \div (FP * (n + 1)))

ExpNeg(x) ==
    LET k == x \div Ln2
        r == x % Ln2
    IN  IF k >= 14 THEN 0 ELSE TaylorExpNeg(r, 0, FP) \div (2^k)

----------------------------------------------------------------------------
(* core/ai/model2_risk_classifier.py *)

\* seeded fault: the boundaries 50, 20 and 5 km fall into the lower-risk band
classify_distance_boundary_low(distance) ==
    IF distance >= 50 * Km THEN 0
    ELSE IF distance >= 20 * Km THEN 1
    ELSE IF distance >= 5 * Km THEN 2
    ELSE 3

\* distance in metres
classify_distance(distance) ==
    IF distance > 50 * Km THEN 0
    ELSE IF distance > 20 * Km THEN 1
    ELSE IF distance > 5 * Km THEN 2
    ELSE 3

labels ==
    [l \in 0..3 |->
        CASE l = 0 -> <<"No Risk", "green", "Continue monitoring">>
          [] l = 1 -> <<"Low Risk", "yellow", "Increase monitoring frequency">>
          [] l = 2 -> <<"Medium Risk", "orange", "Prepare avoidance maneuver">>
          [] l = 3 -> <<"High Risk", "red", "Execute immediate avoidance maneuver">>]

\* labels.get(level, default)
labels_get(level, default) == IF level \in DOMAIN labels THEN labels[level] ELSE default

\* seeded fault: label, color and action are not re-derived after the escalation
classify_risk_advanced_stale_label(distance, relative_velocity, angle) ==
    LET base_level == classify_distance(distance)
        base_lca   == labels_get(base_level, labels[0])
        escalate   == relative_velocity > 10 * Kmps /\ angle > 150
        risk_level == IF escalate THEN Min(base_level + 1, 3) ELSE base_level
    IN  [risk_level |-> risk_level, label |-> base_lca[1], color |-> base_lca[2],
         action |-> base_lca[3]]

\* seeded fault: the escalated level wraps around instead of being capped
classify_risk_advanced_wrapping(distance, relative_velocity, angle) ==
    LET base_level == classify_distance(distance)
        escalate   == relative_velocity > 10 * Kmps /\ angle > 150
        risk_level == IF escalate THEN (base_level + 1) % 4 ELSE base_level
        lca        == labels_get(risk_level, labels[0])
    IN  [risk_level |-> risk_level, label |-> lca[1], color |-> lca[2], action |-> lca[3]]

\* distance in metres, relative_velocity in m/s, angle in degrees
classify_risk_advanced(distance, relative_velocity, angle) ==
    LET base_level == classify_distance(distance)
        base_lca   == labels_get(base_level, labels[0])
        escalate   == relative_velocity > 10 * Kmps /\ angle > 150
        risk_level == IF escalate THEN Min(base_level + 1, 3) ELSE base_level
        lca        == IF escalate THEN labels_get(risk_level, labels[3]) ELSE base_lca
    IN  [risk_level |-> risk_level, label |-> lca[1], color |-> lca[2], action |-> lca[3]]

----------------------------------------------------------------------------
(* core/ai/model1_risk_predictor.py *)

\* distance, altitude_diff in metres; rel_velocity in m/s; angle in degrees;
\* distance_at_tca: None or Some(metres); tca_seconds: None or Some(seconds).
\* The result is in units of 1/FP.
\* line 19, for d = max(distance, 0.001)
distance_term(distance) == ExpNeg((Max(distance, 1) * FP) \div (30 * Km))

\* line 23
base_tca_of(distance_at_tca) == (ExpNeg((Max(distance_at_tca, 1) * FP) \div (20 * Km)) * 8) \div 10

\* lines 27-31
time_factor_of(tca_seconds) ==
    IF tca_seconds >= 0
    THEN FP + (Max(0, ((72 * 3600 - tca_seconds) * 100) \div ((72 * 3600) \div 100)) * 5) \div 10
    ELSE FP

\* lines 34-49, for a given base
weighted_sum(base, rel_velocity, angle, altitude_diff) ==
    LET vel_factor    == (Min((rel_velocity * FP) \div (12 * Kmps), FP) * 4) \div 10
        ang_factor    == (angle * FP) \div 180
        angle_contrib == (ang_factor * 2) \div 10
        alt_factor    == (Max(0, FP - Min((altitude_diff * FP) \div (50 * Km), FP)) * 3) \div 10
    IN  (base * 7) \div 10 + vel_factor + angle_contrib + (alt_factor * 5) \div 10

risk_sum(distance, rel_velocity, angle, altitude_diff, distance_at_tca, tca_seconds) ==
    LET base0    == distance_term(distance)
        \* base = max(base, base_tca * time_factor) is inside
        \* `if tca_seconds is not None` (lines 25-32)
        base     == IF IsNone(distance_at_tca) THEN base0
                    ELSE IF IsNone(tca_seconds) THEN base0
                    ELSE Max(base0, (base_tca_of(Val(distance_at_tca))
                                        * time_factor_of(Val(tca_seconds))) \div FP)
    IN  weighted_sum(base, rel_velocity, angle, altitude_diff)

\* seeded fault: the final clamp is missing
predict_risk_from_features_no_clamp(distance, rel_velocity, angle, altitude_diff, distance_at_tca, tca_seconds) ==
    risk_sum(distance, rel_velocity, angle, altitude_diff, distance_at_tca, tca_seconds)

predict_risk_from_features(distance, rel_velocity, angle, altitude_diff, distance_at_tca, tca_seconds) ==
    LET prob == risk_sum(distance, rel_velocity, angle, altitude_diff,
                                       distance_at_tca, tca_seconds)
    IN  Max(0, Min(FP, prob))

\* the legacy entry point
predict_risk(distance, relative_velocity, angle, altitude) ==
    predict_risk_from_features(distance, relative_velocity, angle, 0, Some(distance), None)

----------------------------------------------------------------------------
(* Vectors: <<x, y, z>> of integers *)

Dot(a, b) == a[1] * b[1] + a[2] * b[2] + a[3] * b[3]
Sub(a, b) == <<a[1] - b[1], a[2] - b[2], a[3] - b[3]>>
NormSq(a) == Dot(a, a)

(* Rationals: <<n, d>> with d > 0 *)
RatLeq(p, q) == p[1] * q[2] <= q[1] * p[2]
RatLess(p, q) == p[1] * q[2] < q[1] * p[2]
RatEq(p, q) == p[1] * q[2] = q[1] * p[2]
RatInt(n) == <<n, 1>>

----------------------------------------------------------------------------
(* core/ai/physics_utils.py *)

\* 1e-12 (km/s)^2, with velocity components in units of 10^-7 km/s
V_REL_SQ_EPS == 100

\* seeded fault: the sign of t* is lost
tstar_sign_flipped(r_rel0, v_rel) == <<Dot(r_rel0, v_rel), NormSq(v_rel)>>

\* seeded fault: t* is clamped to the future
tstar_clamped_to_future(r_rel0, v_rel) == <<Max(0, -Dot(r_rel0, v_rel)), NormSq(v_rel)>>

\* the closed form t* = -(r_rel0 . v_rel) / |v_rel|^2
tstar_closed_form(r_rel0, v_rel) == <<-Dot(r_rel0, v_rel), NormSq(v_rel)>>

\* seeded fault: the closed form is used for every pair
time_of_closest_approach_unguarded(r1, v1, r2, v2) ==
    LET r_rel0   == Sub(r2, r1)
        v_rel    == Sub(v2, v1)
        tstar    == tstar_closed_form(r_rel0, v_rel)
        r_rel_t  == [k \in 1..3 |-> r_rel0[k] * tstar[2] + v_rel[k] * tstar[1]]
        dist_sq  == <<NormSq(r_rel_t), tstar[2] * tstar[2]>>
    IN  [tca_seconds |-> tstar, distance_at_tca_sq |-> dist_sq]

\* Positions in km, velocities in 10^-7 km/s.  Returns tstar as a rational
\* (in units of 10^7 s) and the square of the distance at tstar as a
\* rational (km^2); the code returns its square root.
time_of_closest_approach(r1, v1, r2, v2) ==
    LET r_rel0   == Sub(r2, r1)
        v_rel    == Sub(v2, v1)
        v_rel_sq == Dot(v_rel, v_rel)
        tstar    == IF v_rel_sq < V_REL_SQ_EPS THEN RatInt(0)
                    ELSE tstar_closed_form(r_rel0, v_rel)
        \* r_rel_t = r_rel0 + v_rel * tstar, over the denominator of tstar
        r_rel_t  == [k \in 1..3 |-> r_rel0[k] * tstar[2] + v_rel[k] * tstar[1]]
        dist_sq  == <<NormSq(r_rel_t), tstar[2] * tstar[2]>>
    IN  [tca_seconds |-> tstar, distance_at_tca_sq |-> dist_sq]

----------------------------------------------------------------------------
(* config/settings.py *)

COLLISION_THRESHOLD_KM == 10
HIGH_RISK_THRESHOLD_KM == 5

----------------------------------------------------------------------------
(* core/orbital/vector_math.py and core/orbital/collision_detection.py      *)
(* Positions are dicts with integer x, y, z in km.  Where the code takes a  *)
(* square root and compares the distance with a threshold, the model        *)
(* compares the squares.                                                    *)

compute_distance_sq(pos1, pos2) ==
    LET dx == Get(pos2, "x", 0) - Get(pos1, "x", 0)
        dy == Get(pos2, "y", 0) - Get(pos1, "y", 0)
        dz == Get(pos2, "z", 0) - Get(pos1, "z", 0)
    IN  dx * dx + dy * dy + dz * dz

\* seeded fault: a distance equal to the threshold counts as a risk
detect_collision_simple_inclusive(sat_position, debris_position, threshold_km) ==
    LET threshold   == IF IsNone(threshold_km) THEN COLLISION_THRESHOLD_KM ELSE Val(threshold_km)
        distance_sq == compute_distance_sq(sat_position, debris_position)
    IN  <<distance_sq <= threshold * threshold, distance_sq>>

\* returns (is_risk, distance^2)
detect_collision_simple(sat_position, debris_position, threshold_km) ==
    LET threshold   == IF IsNone(threshold_km) THEN COLLISION_THRESHOLD_KM ELSE Val(threshold_km)
        distance_sq == compute_distance_sq(sat_position, debris_position)
    IN  <<distance_sq < threshold * threshold, distance_sq>>

cell_size == 50

\* seeded fault: division that truncates towards zero
TruncDiv(a, b) == IF a >= 0 THEN a \div b ELSE -((-a) \div b)

\* Python's // : floor division
FloorDiv(a, b) == a \div b

cell(point) ==
    <<FloorDiv(Get(point, "x", 0), cell_size),
      FloorDiv(Get(point, "y", 0), cell_size),
      FloorDiv(Get(point, "z", 0), cell_size)>>

xyz(o) == [k \in {"x", "y", "z"} |-> Get(o, k, 0)]

\* sum(abs(a - b) for a, b in zip(c1, c2))
cell_manhattan(c1, c2) == Abs(c1[1] - c2[1]) + Abs(c1[2] - c2[2]) + Abs(c1[3] - c2[3])

\* seeded fault: the 26-neighbour (Chebyshev) rule
is_candidate_chebyshev(sat_cell, debris) ==
    LET c == cell(xyz(debris))
    IN  \A k \in 1..3 : Abs(sat_cell[k] - c[k]) <= 1

\* the prefilter test of one debris object
is_candidate(sat_cell, debris) == cell_manhattan(sat_cell, cell(xyz(debris))) <= 1

batch_collision_check(satellite, debris_list_arg, threshold_km) ==
    LET threshold == IF IsNone(threshold_km) THEN Some(COLLISION_THRESHOLD_KM) ELSE threshold_km
        sat_pos   == xyz(satellite)
        sat_cell  == cell(sat_pos)
        KeepCandidate(debris) == is_candidate(sat_cell, debris)
        candidate_debris == SelectSeq(debris_list_arg, KeepCandidate)
        IsRisk(debris) == detect_collision_simple(sat_pos, xyz(debris), threshold)[1]
        risky == SelectSeq(candidate_debris, IsRisk)
        collisions ==
            [n \in 1..Len(risky) |->
                LET debris      == risky[n]
                    distance_sq == detect_collision_simple(sat_pos, xyz(debris), threshold)[2]
                IN  [satellite_id |-> Get(satellite, "id", "null"),
                     debris_id    |-> Get(debris, "id", "null"),
                     distance_sq  |-> distance_sq,
                     is_high_risk |-> distance_sq < HIGH_RISK_THRESHOLD_KM * HIGH_RISK_THRESHOLD_KM]]
    \* sat_pos, d_pos, candidate_debris and collisions are new objects and
    \* every append goes to one of them (lines 140-165): the arguments are
    \* returned as the call leaves them
    IN  [candidate_debris |-> candidate_debris, collisions |-> collisions,
         satellite |-> satellite, debris_list |-> debris_list_arg]

----------------------------------------------------------------------------
(* core/orbital/vector_math.py: compute_closest_approach                    *)
(* Positions and velocities are dicts; velocities in 10^-7 km/s.  Times are *)
(* rationals in the unit (position unit) / (10^-7 km/s), and so is the      *)
(* window; the minimum distance is carried as its square.  Quotients are    *)
(* kept in lowest terms.                                                    *)

\* 1e-10 (km/s)^2, with velocity components in units of 10^-7 km/s
PARALLEL_EPS == 10000

RECURSIVE Gcd(_, _)
Gcd(a, b) == IF b = 0 THEN Abs(a) ELSE Gcd(b, a % Abs(b))

\* numerator / denominator in lowest terms, for denominator > 0
Quotient(numerator, denominator) ==
    LET g == Gcd(numerator, denominator)
    IN  <<numerator \div g, denominator \div g>>

\* seeded fault: a closest approach after the window is not clamped
clamp_to_future_only(time_to_closest, time_window_sec) ==
    IF time_to_closest[1] < 0 THEN RatInt(0) ELSE time_to_closest

\* lines 102-105
clamp_to_window(time_to_closest, time_window_sec) ==
    IF time_to_closest[1] < 0 THEN RatInt(0)
    ELSE IF time_to_closest[1] > time_window_sec * time_to_closest[2] THEN RatInt(time_window_sec)
    ELSE time_to_closest

compute_closest_approach(pos1, vel1, pos2, vel2, time_window_sec) ==
    LET current_distance_sq == compute_distance_sq(pos1, pos2)
        d  == <<Get(pos2, "x", 0) - Get(pos1, "x", 0), Get(pos2, "y", 0) - Get(pos1, "y", 0),
                Get(pos2, "z", 0) - Get(pos1, "z", 0)>>
        dv == <<Get(vel2, "vx", 0) - Get(vel1, "vx", 0), Get(vel2, "vy", 0) - Get(vel1, "vy", 0),
                Get(vel2, "vz", 0) - Get(vel1, "vz", 0)>>
        numerator   == -Dot(d, dv)
        denominator == NormSq(dv)
    IN  IF denominator < PARALLEL_EPS
        THEN [time_to_closest |-> RatInt(0), min_distance_sq |-> RatInt(current_distance_sq)]
        ELSE LET t == clamp_to_window(Quotient(numerator, denominator), time_window_sec)
                 \* positions at t, over the denominator of t
                 future(pos, vel) ==
                     <<Get(pos, "x", 0) * t[2] + Get(vel, "vx", 0) * t[1],
                       Get(pos, "y", 0) * t[2] + Get(vel, "vy", 0) * t[1],
                       Get(pos, "z", 0) * t[2] + Get(vel, "vz", 0) * t[1]>>
             IN  [time_to_closest |-> t,
                  min_distance_sq |-> Quotient(NormSq(Sub(future(pos2, vel2), future(pos1, vel1))),
                                               t[2] * t[2])]

----------------------------------------------------------------------------
(* math.sqrt on a non-negative integer, rounded down *)

RECURSIVE ISqrtIter(_, _)
ISqrtIter(n, x) ==
    \* y ranges over a singleton, so that each iterate is a value when the
    \* next one is computed from it
    CHOOSE root \in { IF y >= x THEN x ELSE ISqrtIter(n, y) :
                        y \in {(x + n \div x) \div 2} } : TRUE

ISqrt(n) == IF n < 2 THEN n ELSE ISqrtIter(n, n)

----------------------------------------------------------------------------
(* services/collision_service.py: CollisionService.calculate_collision_risks *)
(* Catalog objects are dicts: longitude and latitude in tenths of a degree,  *)
(* altitude_km in km, velocity_kmps in m/s.                                  *)

\* A call f(**kwargs) of a def whose parameters `params` have no defaults
\* binds iff the keywords are exactly the parameter names; otherwise Python
\* raises TypeError.
Binds(kwargs, params) == DOMAIN kwargs = params

predict_risk_params == {"distance", "relative_velocity", "angle", "altitude"}
classify_risk_advanced_params == {"distance", "relative_velocity", "angle"}

\* collision_events.sort(key=risk_level, reverse=True): stable, highest first
RECURSIVE insert_by_risk_level(_, _)
insert_by_risk_level(sorted, e) ==
    IF sorted = <<>> THEN <<e>>
    ELSE IF Head(sorted).risk_level >= e.risk_level
         THEN <<Head(sorted)>> \o insert_by_risk_level(Tail(sorted), e)
         ELSE <<e>> \o sorted

RECURSIVE sort_from(_, _)
sort_from(sorted, rest) ==
    IF rest = <<>> THEN sorted
    ELSE sort_from(insert_by_risk_level(sorted, Head(rest)), Tail(rest))

\* seeded fault: reverse=True is missing (lowest level first)
RECURSIVE sort_ascending_by_risk_level(_)
sort_ascending_by_risk_level(events) ==
    IF events = <<>> THEN <<>>
    ELSE LET lowest == CHOOSE k \in 1..Len(events) :
                           /\ \A m \in 1..Len(events) : events[k].risk_level <= events[m].risk_level
                           /\ \A m \in 1..(k - 1) : events[m].risk_level > events[k].risk_level
         IN  <<events[lowest]>> \o
             sort_ascending_by_risk_level(SubSeq(events, 1, lowest - 1) \o
                                          SubSeq(events, lowest + 1, Len(events)))

sort_by_risk_level(events) == sort_from(<<>>, events)

scan_pos(o) ==
    [x |-> (Get(o, "longitude", 0) * 100) \div 10,
     y |-> (Get(o, "latitude", 0) * 100) \div 10,
     z |-> Get(o, "altitude_km", 400)]

scan_vel(o) == <<Get(o, "velocity_kmps", 7500), 0, 0>>

\* distance < 50, on the squares
within_monitoring_threshold(satellite, debris) ==
    compute_distance_sq(scan_pos(satellite), scan_pos(debris)) < 50 * 50

\* The body of the inner loop for a pair within the threshold (lines 61-113):
\* the exception it raises, or the event it appends.
scan_pair(satellite, debris) ==
    LET distance     == ISqrt(compute_distance_sq(scan_pos(satellite), scan_pos(debris)) * 10^4) * 10
        rel_velocity == ISqrt(NormSq(Sub(scan_vel(debris), scan_vel(satellite))))
        alt_diff     == Abs(Get(satellite, "altitude_km", 0) - Get(debris, "altitude_km", 0)) * Km
        predict_kwargs  == [distance_km |-> distance, relative_velocity_kmps |-> rel_velocity,
                            angle_deg |-> 90, altitude_diff_km |-> alt_diff]
        classify_kwargs == [distance_km |-> distance, relative_velocity_kmps |-> rel_velocity,
                            time_to_approach_sec |-> 3600]
        risk_score == predict_risk(predict_kwargs["distance"], predict_kwargs["relative_velocity"],
                                   predict_kwargs["angle"], predict_kwargs["altitude"])
        risk_classification ==
            classify_risk_advanced(classify_kwargs["distance"], classify_kwargs["relative_velocity"],
                                   classify_kwargs["angle"])
    IN  IF ~Binds(predict_kwargs, predict_risk_params)
        THEN [raises |-> "TypeError"]
        ELSE IF ~Binds(classify_kwargs, classify_risk_advanced_params)
        THEN [raises |-> "TypeError"]
        ELSE IF ~({"risk_level", "risk_label", "recommended_action"} \subseteq DOMAIN risk_classification)
        THEN [raises |-> "KeyError"]
        ELSE [raises |-> "none",
              event  |-> [satellite_id       |-> satellite["id"],
                          debris_id          |-> debris["id"],
                          distance_km        |-> distance,
                          risk_score         |-> risk_score,
                          risk_level         |-> risk_classification["risk_level"],
                          risk_label         |-> risk_classification["risk_label"],
                          recommended_action |-> risk_classification["recommended_action"]]]

MaxSats == 2
MaxDebris == 2

SatCatalog ==
    { [id |-> "s1", name |-> "SAT-1", longitude |-> 0, latitude |-> 0,
       altitude_km |-> 400, velocity_kmps |-> 7500],
      [id |-> "s2", name |-> "SAT-2", longitude |-> 3, latitude |-> -1,
       altitude_km |-> 420, velocity_kmps |-> 7600],
      [id |-> "s3", name |-> "SAT-3", longitude |-> 900, latitude |-> 450,
       altitude_km |-> 800, velocity_kmps |-> 7400] }

DebrisCatalog ==
    { [id |-> "d1", name |-> "DEB-1", longitude |-> 0, latitude |-> 0,
       altitude_km |-> 404, velocity_kmps |-> 7500],
      [id |-> "d2", name |-> "DEB-2", longitude |-> 1, latitude |-> 1,
       altitude_km |-> 410, velocity_kmps |-> 7000],
      [id |-> "d3", name |-> "DEB-3", longitude |-> 0, latitude |-> 0,
       altitude_km |-> 450, velocity_kmps |-> 7500],
      [id |-> "d4", name |-> "DEB-4", longitude |-> -1700, latitude |-> 100,
       altitude_km |-> 600, velocity_kmps |-> 7300] }

ScanInit ==
    /\ satellites \in SeqsUpTo(SatCatalog, MaxSats)
    /\ debris_list \in SeqsUpTo(DebrisCatalog, MaxDebris)
    /\ sat_i = 1
    /\ deb_j = 1
    /\ collision_events = <<>>
    /\ pc = "loop"
    /\ raised = "none"

LoopsDone == sat_i > Len(satellites) \/ Len(debris_list) = 0

\* one iteration of the inner loop (lines 44-113)
ProcessPair ==
    /\ pc = "loop"
    /\ ~LoopsDone
    /\ LET satellite == satellites[sat_i]
           debris    == debris_list[deb_j]
           outcome   == scan_pair(satellite, debris)
           advance   == /\ deb_j' = (IF deb_j < Len(debris_list) THEN deb_j + 1 ELSE 1)
                        /\ sat_i' = (IF deb_j < Len(debris_list) THEN sat_i ELSE sat_i + 1)
       IN  IF ~within_monitoring_threshold(satellite, debris)
           THEN /\ advance
                /\ UNCHANGED <<collision_events, pc, raised>>
           ELSE IF outcome.raises /= "none"
           THEN /\ pc' = "raised"
                /\ raised' = outcome.raises
                /\ UNCHANGED <<collision_events, sat_i, deb_j>>
           ELSE /\ advance
                /\ collision_events' = Append(collision_events, outcome.event)
                /\ UNCHANGED <<pc, raised>>
    /\ UNCHANGED <<satellites, debris_list>>
    /\ UNCHANGED <<callVars, streamVars, storeVars>>

\* lines 115-118
SortAndReturn ==
    /\ pc = "loop"
    /\ LoopsDone
    /\ collision_events' = sort_by_risk_level(collision_events)
    /\ pc' = "returned"
    /\ UNCHANGED <<satellites, debris_list, sat_i, deb_j, raised>>
    /\ UNCHANGED <<callVars, streamVars, storeVars>>

CallsIdle == op = "none" /\ args = <<>> /\ ret = <<>>

ScanIdle ==
    /\ satellites = <<>>
    /\ debris_list = <<>>
    /\ sat_i = 0
    /\ deb_j = 0
    /\ collision_events = <<>>
    /\ pc = "idle"
    /\ raised = "none"

StreamIdle ==
    /\ stream_pc = "idle"
    /\ ws_client = "disconnected"
    /\ payload = None
    /\ caught = "none"
    /\ close_code = None
    /\ result_used = FALSE

\* no thread is in a LocalCache call
ThreadsIdle ==
    /\ lock = None
    /\ thread_pc = [t \in Threads |-> "idle"]
    /\ thread_call = [t \in Threads |-> <<>>]

\* the tables as _ensure_db (local_cache.py:77-84) and a new Supabase
\* project leave them: created and empty
StoreIdle ==
    /\ remote = [table \in Tables |-> <<>>]
    /\ cache = [table \in Tables |-> <<>>]
    /\ ThreadsIdle

InitScan == ScanInit /\ CallsIdle /\ StreamIdle /\ StoreIdle

NextScan == ProcessPair \/ SortAndReturn

SpecScan == InitScan /\ [][NextScan]_vars

----------------------------------------------------------------------------
(* api/risk_stream.py: risks_socket                                         *)
(* The handler never reads from the socket: it learns that the subscriber   *)
(* is gone when send_json raises.  Which exception the server raises there  *)
(* is the server's choice: WebSocketDisconnect, or another Exception.       *)
(* asyncio.sleep(5) is one step; time is not measured.                      *)

TOP_N == 10

payload_keys ==
    {"satellite_id", "satellite_name", "debris_id", "distance_km", "risk_score",
     "risk_level", "time_to_closest_approach_sec", "minimum_distance_km",
     "collision_probability"}

\* seeded fault: the last ten events instead of the first ten
top_events_from_the_end(events) ==
    SubSeq(events, Max(1, Len(events) - TOP_N + 1), Len(events))

\* events[:10]
top_events_of(events) == SubSeq(events, 1, Min(TOP_N, Len(events)))

\* lines 39-55; e.get(key) is None for a key the event lacks
payload_of(events) ==
    LET top_events == top_events_of(events)
    IN  [timestamp |-> "time.time()",
         events    |-> [k \in 1..Len(top_events) |->
                           [key \in payload_keys |-> Get(top_events[k], key, None)]]]

\* seeded fault: a disconnect is swallowed and the loop goes on
handler_of_retrying(exception) ==
    IF exception = "WebSocketDisconnect"
    THEN [stream_pc |-> "sleep", close_code |-> None]
    ELSE [stream_pc |-> "done", close_code |-> Some(1011)]

\* seeded fault: an unexpected error is logged and the loop goes on
handler_of_logging_errors(exception) ==
    IF exception = "WebSocketDisconnect"
    THEN [stream_pc |-> "done", close_code |-> None]
    ELSE [stream_pc |-> "sleep", close_code |-> None]

\* lines 58-63: where an exception raised in the loop leaves the handler
handler_of(exception) ==
    IF exception = "WebSocketDisconnect"
    THEN [stream_pc |-> "done", close_code |-> None]
    ELSE [stream_pc |-> "done", close_code |-> Some(1011)]

\* the exceptions send_json can raise when the subscriber is gone
SendFailures == {"WebSocketDisconnect", "Exception"}

\* a subscriber has connected and the server calls the handler
StreamInit ==
    /\ stream_pc = "accept"
    /\ ws_client = "connected"
    /\ payload = None
    /\ caught = "none"
    /\ close_code = None
    /\ result_used = FALSE

\* line 35; outside the try: an exception here leaves the handler uncaught
Accept ==
    /\ stream_pc = "accept"
    /\ IF ws_client = "connected"
       THEN stream_pc' = "tick" /\ caught' = caught
       ELSE stream_pc' = "done" /\ caught' = "uncaught"
    /\ UNCHANGED <<ws_client, payload, close_code, result_used>>
    /\ UNCHANGED <<callVars, scanVars, storeVars>>

\* line 38 and lines 27-30: the scan starts by fetching both catalogs
StartScan ==
    /\ stream_pc = "tick"
    /\ stream_pc' = "scan"
    /\ satellites' \in SeqsUpTo(SatCatalog, MaxSats)
    /\ debris_list' \in SeqsUpTo(DebrisCatalog, MaxDebris)
    /\ sat_i' = 1
    /\ deb_j' = 1
    /\ collision_events' = <<>>
    /\ pc' = "loop"
    /\ raised' = "none"
    /\ result_used' = FALSE
    /\ UNCHANGED <<ws_client, payload, caught, close_code>>
    /\ UNCHANGED <<callVars, storeVars>>

\* the scan raised (pc = "raised"): lines 61-63
ScanRaised ==
    /\ stream_pc = "scan"
    /\ pc = "raised"
    /\ caught' = raised
    /\ stream_pc' = handler_of(raised).stream_pc
    /\ close_code' = handler_of(raised).close_code
    /\ UNCHANGED <<ws_client, payload, result_used>>
    /\ UNCHANGED <<callVars, scanVars, storeVars>>

\* the scan returned: lines 39-56, and 58-63 when send_json raises
BuildAndSend ==
    /\ stream_pc = "scan"
    /\ pc = "returned"
    /\ payload' = payload_of(collision_events)
    /\ result_used' = TRUE
    /\ IF ws_client = "connected"
       THEN /\ stream_pc' = "sleep"
            /\ UNCHANGED <<caught, close_code>>
       ELSE \E exception \in SendFailures :
            /\ caught' = exception
            /\ stream_pc' = handler_of(exception).stream_pc
            /\ close_code' = handler_of(exception).close_code
    /\ UNCHANGED ws_client
    /\ UNCHANGED <<callVars, scanVars, storeVars>>

\* line 57
Sleep ==
    /\ stream_pc = "sleep"
    /\ stream_pc' = "tick"
    /\ UNCHANGED <<ws_client, payload, caught, close_code, result_used>>
    /\ UNCHANGED <<callVars, scanVars, storeVars>>

\* the subscriber goes away, at any moment
Disconnect ==
    /\ stream_pc /= "idle"
    /\ ws_client = "connected"
    /\ ws_client' = "disconnected"
    /\ UNCHANGED <<stream_pc, payload, caught, close_code, result_used>>
    /\ UNCHANGED <<callVars, scanVars, storeVars>>

InitStream == ScanIdle /\ CallsIdle /\ StreamInit /\ StoreIdle

HandlerStep ==
    \/ Accept
    \/ StartScan
    \/ ProcessPair
    \/ SortAndReturn
    \/ ScanRaised
    \/ BuildAndSend
    \/ Sleep

NextStream == HandlerStep \/ Disconnect

SpecStream == InitStream /\ [][NextStream]_vars

\* the event loop runs the handler whenever it can take a step
SpecStreamFair == SpecStream /\ WF_vars(HandlerStep)

----------------------------------------------------------------------------
(* core/ai/rl_maneuver_agent.py: suggest_multi_burn_maneuver                *)
(* A plan holds delta_v_mps in cm/s, burn_duration_s in 1/100 s,             *)
(* fuel_cost_kg in g and safety_margin_km in 1/100 km: the units its fields *)
(* are rounded to.  Shares are exact rationals.  Two effects of the doubles *)
(* are modelled, because they decide the rounded values: sum(factors) stops *)
(* growing once a term falls below the last bit of the significand, and a   *)
(* value that lies exactly between two decimals is rounded by the double    *)
(* that holds it.                                                           *)

\* bits of the significand of a Python float
DOUBLE_SIGNIFICAND_BITS == 53

RECURSIVE PowMod(_, _, _)
PowMod(b, e, m) == IF e = 0 THEN 1 ELSE (b * PowMod(b, e - 1, m)) % m

\* The decimal n / unit (n >= unit) is held as the nearest double
\* round(n * 2^k / unit) / 2^k: -1, 0 or 1 as the double is below, equal to
\* or above n / unit.
double_error_sign(n, unit) ==
    LET e == CHOOSE x \in 0..10 : unit * 2^x <= n /\ n < unit * 2^(x + 1)
        r == ((n % unit) * PowMod(2, DOUBLE_SIGNIFICAND_BITS - 1 - e, unit)) % unit
    IN  IF r = 0 THEN 0 ELSE IF 2 * r < unit THEN -1 ELSE 1

\* round(x, ndigits) of x = (p / q) * (1 + error), in units of 10^-ndigits:
\* to the nearest; a tie of p / q goes where the error points, and to the
\* even neighbour when the double is exact.
py_round(p, q, error_sign) ==
    LET lower == p \div q
        twice == 2 * (p % q)
    IN  IF twice < q THEN lower
        ELSE IF twice > q THEN lower + 1
        ELSE IF error_sign < 0 THEN lower
        ELSE IF error_sign > 0 THEN lower + 1
        ELSE IF lower % 2 = 0 THEN lower ELSE lower + 1

\* sum(factors) with factors = [0.5 ** i for i in range(num_burns)], as a
\* rational: 2 - 2^-(num_burns-1) has num_burns significant bits; beyond the
\* significand the running sum rounds to 2.0 and stays there.
factors_sum(num_burns) ==
    IF num_burns <= DOUBLE_SIGNIFICAND_BITS
    THEN <<2^num_burns - 1, 2^(num_burns - 1)>>
    ELSE <<2, 1>>

\* dv / total_dv of burn i (from 0): factors[i] / sum(factors)
burn_share(num_burns, i) ==
    LET s == factors_sum(num_burns)
    IN  <<s[2], 2^i * s[1]>>

\* round(value * (dv / total_dv), ndigits) for a baseline value n / unit;
\* from burn 24 on of a saturated sum the share is below 2^-24 and the
\* product (n < 2^23) rounds to 0.
burn_field(n, unit, num_burns, i) ==
    IF num_burns > DOUBLE_SIGNIFICAND_BITS /\ i >= 24 THEN 0
    ELSE LET share == burn_share(num_burns, i)
         IN  py_round(n * share[1], share[2], double_error_sign(n, unit))

\* seeded fault: the fuel cost of the baseline is copied to every burn
suggest_multi_burn_maneuver_unscaled_fuel(base, num_burns) ==
    [k \in 1..num_burns |->
        [delta_v_mps      |-> burn_field(base.delta_v_mps, 100, num_burns, k - 1),
         direction_vector |-> base.direction_vector,
         burn_duration_s  |-> burn_field(base.burn_duration_s, 100, num_burns, k - 1),
         fuel_cost_kg     |-> base.fuel_cost_kg,
         safety_margin_km |-> burn_field(base.safety_margin_km, 100, num_burns, k - 1)]]

suggest_multi_burn_maneuver(base, num_burns) ==
    [k \in 1..num_burns |->
        [delta_v_mps      |-> burn_field(base.delta_v_mps, 100, num_burns, k - 1),
         direction_vector |-> base.direction_vector,
         burn_duration_s  |-> burn_field(base.burn_duration_s, 100, num_burns, k - 1),
         fuel_cost_kg     |-> burn_field(base.fuel_cost_kg, 1000, num_burns, k - 1),
         safety_margin_km |-> burn_field(base.safety_margin_km, 100, num_burns, k - 1)]]

\* sum(m["delta_v_mps"] for m in maneuver_sequence)
RECURSIVE total_delta_v(_)
total_delta_v(maneuver_sequence) ==
    IF maneuver_sequence = <<>> THEN 0
    ELSE Head(maneuver_sequence).delta_v_mps + total_delta_v(Tail(maneuver_sequence))

----------------------------------------------------------------------------
(* core/ai/rl_maneuver_agent.py: suggest_maneuver_simple                    *)
(* Positions in km, velocities in 10^-7 km/s, as for                        *)
(* time_of_closest_approach.  A vector travels with the exponent of its     *)
(* unit: [vec, unit_exp] is vec * 10^-unit_exp.  A normalised vector is     *)
(* [vec, norm_sq], standing for vec / sqrt(norm_sq).                        *)

Cross(a, b) ==
    <<a[2] * b[3] - a[3] * b[2], a[3] * b[1] - a[1] * b[3], a[1] * b[2] - a[2] * b[1]>>

\* np.linalg.norm(vec) < 1e-6, the components of vec in units of 10^-unit_exp
norm_below_1e6(vec, unit_exp) ==
    IF unit_exp >= 6 THEN NormSq(vec) < 10^(2 * (unit_exp - 6)) ELSE NormSq(vec) = 0

\* physics_utils.unit
unit(vec) ==
    IF NormSq(vec) = 0 THEN [vec |-> <<0, 0, 0>>, norm_sq |-> 1]
    ELSE [vec |-> vec, norm_sq |-> NormSq(vec)]

\* seeded fault: the last fallback, the fixed axis, is missing
perp_without_axis_fallback(r_rel0, v_rel) ==
    IF norm_below_1e6(v_rel, 7)
    THEN [vec |-> Cross(r_rel0, <<0, 0, 1>>), unit_exp |-> 0]
    ELSE LET perp == Cross(v_rel, r_rel0)
         IN  IF norm_below_1e6(perp, 7)
             THEN [vec |-> Cross(v_rel, <<0, 0, 1>>), unit_exp |-> 7]
             ELSE [vec |-> perp, unit_exp |-> 7]

\* lines 35-45: the direction perpendicular to v_rel, with its fallbacks
perp_of(r_rel0, v_rel) ==
    IF norm_below_1e6(v_rel, 7)
    THEN LET perp == Cross(r_rel0, <<0, 0, 1>>)
         IN  IF norm_below_1e6(perp, 0)
             THEN [vec |-> <<1, 0, 0>>, unit_exp |-> 0]
             ELSE [vec |-> perp, unit_exp |-> 0]
    ELSE LET perp == Cross(v_rel, r_rel0)
         IN  IF norm_below_1e6(perp, 7)
             THEN LET perp2 == Cross(v_rel, <<0, 0, 1>>)
                  IN  IF norm_below_1e6(perp2, 7)
                      THEN [vec |-> <<1, 0, 0>>, unit_exp |-> 0]
                      ELSE [vec |-> perp2, unit_exp |-> 7]
             ELSE [vec |-> perp, unit_exp |-> 7]

\* <<floor(n * 100^digits / d), the remainder>> by long division
RECURSIVE LongDiv(_, _, _)
LongDiv(n, d, digits) ==
    IF digits = 0 THEN <<n \div d, n % d>>
    ELSE LET p == LongDiv(n, d, digits - 1)
         IN  <<p[1] * 100 + (p[2] * 100) \div d, (p[2] * 100) % d>>

\* the square root of a rational number of km^2, in metres
sqrt_metres(rat) == ISqrt(LongDiv(rat[1], rat[2], 3)[1])

\* seeded fault: the quotient is not clamped to [0, 1]
severity_unclamped(dist_at_tca) ==
    IF dist_at_tca <= 1 * Km THEN FP
    ELSE ((50 * Km - dist_at_tca) * FP) \div (50 * Km)

\* lines 52-56; dist_at_tca in metres, the result in 1/FP
severity_of(dist_at_tca) ==
    IF dist_at_tca <= 1 * Km THEN FP
    ELSE Max(0, Min(FP, ((50 * Km - dist_at_tca) * FP) \div (50 * Km)))

\* line 58, in units of 10^-8 km/s (0.0495 * 10^8 / FP = 495)
dv_mag_of(severity) == 50000 + severity * 495

\* line 69, in 1/FP
confidence_of(severity) == Max(4000, Min(9800, 6000 + (severity * 35) \div 100))

suggest_maneuver_simple(sat, deb) ==
    LET r1 == <<sat.x, sat.y, sat.z>>
        v1 == <<sat.vx, sat.vy, sat.vz>>
        r2 == <<deb.x, deb.y, deb.z>>
        v2 == <<deb.vx, deb.vy, deb.vz>>
        feats    == time_of_closest_approach(r1, v1, r2, v2)
        r_rel0   == Sub(r2, r1)
        v_rel    == Sub(v2, v1)
        perp     == perp_of(r_rel0, v_rel)
        perp_dir == unit(perp.vec)
        severity == severity_of(sqrt_metres(feats.distance_at_tca_sq))
        dv_mag   == dv_mag_of(severity)
        \* -unit(v_rel) if norm(v_rel) > 1e-6 else zeros
        along_vrel == IF NormSq(v_rel) > 100
                      THEN unit(<<-v_rel[1], -v_rel[2], -v_rel[3]>>)
                      ELSE unit(<<0, 0, 0>>)
    IN  [perp       |-> perp,
         perp_dir   |-> perp_dir,
         along_vrel |-> along_vrel,
         severity   |-> severity,
         dv_mag     |-> dv_mag,
         \* dv_vector = perp_dir * dv_mag * 0.9 + along_vrel * dv_mag * 0.1,
         \* the weights in tenths
         dv_vector  |-> [dv_mag |-> dv_mag,
                         terms  |-> <<[weight |-> 9, dir |-> perp_dir],
                                      [weight |-> 1, dir |-> along_vrel]>>],
         confidence |-> confidence_of(severity),
         features   |-> feats]

----------------------------------------------------------------------------
(* core/ai/rl_maneuver_agent.py: evaluate_maneuver_safety                   *)
(* delta_v_mps in cm/s, safety_margin_km in 1/100 km, fuel_cost_kg in g;    *)
(* efficiency (km per kg) is an exact rational with a positive denominator. *)
(* The rounding of the returned numbers (lines 212-214) is left out.        *)

DEFAULT_FUEL_COST_KG == 1000

\* a / b for b /= 0, with the sign carried by the numerator
signed_quotient(a, b) == IF b > 0 THEN <<a, b>> ELSE <<-a, -b>>

\* seeded fault: a safety margin is not required for "execute"
recommendation_by_efficiency_alone(efficiency, safety_margin) ==
    IF RatLess(<<5, 100>>, efficiency) THEN "execute"
    ELSE IF RatLess(<<2, 100>>, efficiency) THEN "review"
    ELSE "inefficient"

\* lines 206-210
recommendation_of(efficiency, safety_margin) ==
    IF RatLess(<<5, 100>>, efficiency) /\ safety_margin > 50 THEN "execute"
    ELSE IF RatLess(<<2, 100>>, efficiency) THEN "review"
    ELSE "inefficient"

\* satellite_state is not read
evaluate_maneuver_safety(maneuver, satellite_state) ==
    LET dv            == Get(maneuver, "delta_v_mps", 0)
        safety_margin == Get(maneuver, "safety_margin_km", 0)
        \* maneuver.get("fuel_cost_kg", 1.0) or 1.0: a zero is replaced too
        got_fuel_cost == Get(maneuver, "fuel_cost_kg", DEFAULT_FUEL_COST_KG)
        fuel_cost     == IF got_fuel_cost = 0 THEN DEFAULT_FUEL_COST_KG ELSE got_fuel_cost
    IN  IF fuel_cost = 0
        THEN [raises |-> "ZeroDivisionError"]
        ELSE LET efficiency == signed_quotient(safety_margin * 10, fuel_cost)
                 \* 0.6 + dv / 50.0 in 1/FP
                 confidence == Max(5000, Min(9900, 6000 + dv * 2))
             IN  [raises            |-> "none",
                  risk_reduction_km |-> safety_margin,
                  efficiency        |-> efficiency,
                  confidence        |-> confidence,
                  recommendation    |-> recommendation_of(efficiency, safety_margin)]

----------------------------------------------------------------------------
(* config/local_cache.py and config/supabase_client.py: the two stores.     *)
(* A dict is a function from its keys; a row of the cache holds an option   *)
(* for every column of its table (None is NULL).  A Supabase request ends   *)
(* in one of SupabaseOutcomes: it is answered ("ok"), the client cannot be  *)
(* built (SupabaseUnavailable, lines 38-50) or the request raises.          *)

\* the columns of CREATE TABLE (local_cache.py:15-68)
TABLE_DEFINITIONS ==
    [alerts    |-> {"id", "satellite_id", "debris_id", "risk_level", "probability",
                    "message", "created_at"},
     maneuvers |-> {"id", "satellite_id", "delta_v", "delta_vx", "delta_vy", "delta_vz",
                    "confidence", "expected_miss_improvement", "created_at"}]

\* datetime.utcnow().isoformat(): the clock is not modelled, every reading
\* is the same instant
utcnow_isoformat == "2024-01-01T00:00:00"

\* datetime.fromisoformat(v.replace('Z', '+00:00')).timestamp(), in seconds
timestamp(v) == IF v = "2024-01-01T00:00:00" THEN 1704067200 ELSE 0

\* local_cache.py:95-111: the fields of the record that are columns of the
\* table; created_at is the one REAL column that is given a string here
filtered_record(table, record) ==
    [k \in DOMAIN record \cap TABLE_DEFINITIONS[table] |->
        IF k = "created_at" THEN timestamp(record[k]) ELSE record[k]]

\* the position of the row with this id, or 0
row_of(rows, record_id) ==
    IF \E i \in 1..Len(rows) : rows[i].id = Some(record_id)
    THEN CHOOSE i \in 1..Len(rows) : rows[i].id = Some(record_id)
    ELSE 0

\* local_cache.py:113-131: INSERT ... ON CONFLICT(id) DO UPDATE SET ..., or
\* nothing for a record without an id (line 113) and for a record with an
\* id only, whose statement ends after SET and is refused (lines 124-129)
sqlite_upsert(table, rows, filtered) ==
    IF DOMAIN filtered = {} \/ "id" \notin DOMAIN filtered THEN rows
    ELSE IF DOMAIN filtered = {"id"} THEN rows
    ELSE LET i == row_of(rows, filtered.id)
         IN  IF i = 0
             THEN Append(rows, [col \in TABLE_DEFINITIONS[table] |->
                                  IF col \in DOMAIN filtered THEN Some(filtered[col])
                                  ELSE None])
             ELSE [rows EXCEPT ![i] =
                      [col \in TABLE_DEFINITIONS[table] |->
                          IF col \in DOMAIN filtered THEN Some(filtered[col])
                          ELSE rows[i][col]]]

\* LocalCache.upsert, run to its end by one thread
upsert(tables, table, record) ==
    [tables EXCEPT ![table] = sqlite_upsert(table, @, filtered_record(table, record))]

\* LocalCache.get_by_id
get_by_id(tables, table, record_id) ==
    LET i == row_of(tables[table], record_id)
    IN  IF i = 0 THEN None ELSE Some(tables[table][i])

SupabaseOutcomes == {"ok", "SupabaseUnavailable", "Exception"}

\* {"id": record_id, **data}
with_id(record_id, data) ==
    [k \in DOMAIN data \cup {"id"} |-> IF k = "id" THEN record_id ELSE data[k]]

\* {**row, **data}
merged(row, data) ==
    [k \in DOMAIN row \cup DOMAIN data |-> IF k \in DOMAIN data THEN data[k] ELSE row[k]]

\* SupabaseClient.insert: the tables after it, and what it returns
insert(outcome, tables, local, table, data) ==
    IF outcome = "ok"
    THEN [remote |-> [tables EXCEPT ![table] =
                         [id \in DOMAIN @ \cup {data.id} |->
                             IF id = data.id THEN data ELSE @[id]]],
          cache  |-> upsert(local, table, data),
          result |-> Some(data)]
    ELSE [remote |-> tables,
          cache  |-> upsert(local, table, data),
          result |-> Some(data)]

\* SupabaseClient.update: response.data holds the rows that matched the id
update(outcome, tables, local, table, record_id, data) ==
    IF outcome = "ok"
    THEN IF record_id \in DOMAIN tables[table]
         THEN LET updated == merged(tables[table][record_id], data)
              IN  [remote |-> [tables EXCEPT ![table][record_id] = updated],
                   cache  |-> upsert(local, table, updated),
                   result |-> Some(updated)]
         ELSE [remote |-> tables, cache |-> local, result |-> None]
    ELSE [remote |-> tables,
          cache  |-> upsert(local, table, with_id(record_id, data)),
          result |-> Some(with_id(record_id, data))]

----------------------------------------------------------------------------
(* core/ai/rl_maneuver_agent.py: the single-burn planner;                   *)
(* services/maneuver_service.py and api/maneuvers.py: /plan and             *)
(* /emergency-plan.  threat_distance_km in metres, urgency an exact         *)
(* rational, the fields of a plan in the units of suggest_multi_burn_       *)
(* maneuver.  The direction is a name: the code always takes the radial     *)
(* one (altitude_estimate = 400).                                           *)

\* 1000.0 * (1 - math.exp(-delta_v / (isp * g0))) rounded to grams, for a
\* delta_v of delta_v4 / 4 cm/s: the values CPython returns for the delta-v
\* of ThreatDistances
tsiolkovsky_fuel_cost(delta_v4) ==
    CASE delta_v4 = 21000 -> 17681
      [] delta_v4 = 18000 -> 15174
      [] delta_v4 = 16001 -> 13500
      [] delta_v4 = 16000 -> 13500
      [] delta_v4 = 15999 -> 13499
      [] delta_v4 = 13332 -> 11261
      [] delta_v4 = 11000 -> 9301
      [] delta_v4 = 6100 -> 5168
      [] delta_v4 = 6008 -> 5091
      [] delta_v4 = 6004 -> 5087
      [] delta_v4 = 6001 -> 5085
      [] delta_v4 = 6000 -> 5084

\* urgency_factor = 1.0 + (urgency * 2.5)
urgency_factor(urgency) == <<2 * urgency[2] + 5 * urgency[1], 2 * urgency[2]>>

\* distance, relative_velocity and angle are not read.  delta_v / 10.0 and
\* delta_v * 0.1 differ where they fall on a half unit (15.25 m/s): the
\* quotient is the double below it, the product the double above.
suggest_maneuver_legacy(distance, relative_velocity, angle, urgency) ==
    LET factor  == urgency_factor(urgency)
        \* base_dv = 15.0 m/s, in cm/s
        delta_v == <<1500 * factor[1], factor[2]>>
    IN  [delta_v          |-> py_round(delta_v[1], delta_v[2], 0),
         direction_vector |-> "radial",
         burn_duration    |-> py_round(delta_v[1], 10 * delta_v[2], -1),
         fuel_cost        |-> tsiolkovsky_fuel_cost((4 * delta_v[1]) \div delta_v[2]),
         safety_margin    |-> py_round(delta_v[1], 10 * delta_v[2], 1)]

\* max(0.0, min(1.0, (15.0 - distance) / 15.0))
urgency_of(distance) == <<Max(0, Min(15 * Km, 15 * Km - distance)), 15 * Km>>

_compute_basic_maneuver(satellite_state) ==
    LET distance == Get(satellite_state, "threat_distance_km", 10 * Km)
        legacy   == suggest_maneuver_legacy(distance, "rel_vel_mag", 45,
                                            urgency_of(distance))
    IN  [delta_v_mps      |-> legacy.delta_v,
         direction_vector |-> legacy.direction_vector,
         burn_duration_s  |-> legacy.burn_duration,
         fuel_cost_kg     |-> legacy.fuel_cost,
         safety_margin_km |-> legacy.safety_margin]

suggest_maneuver(satellite_state) == _compute_basic_maneuver(satellite_state)

\* ManeuverService.plan_maneuver, lines 28-52: the plan it stores and
\* returns; position, velocity and threat_direction are read by nothing
maneuver_plan_of(uuid4, satellite_id, threat_data) ==
    LET satellite_state == [satellite_id       |-> satellite_id,
                            threat_distance_km |-> Get(threat_data, "distance_km", 10 * Km)]
        maneuver    == suggest_maneuver(satellite_state)
        safety_eval == evaluate_maneuver_safety(maneuver, satellite_state)
    IN  [id                |-> uuid4,
         satellite_id      |-> satellite_id,
         delta_v_mps       |-> maneuver.delta_v_mps,
         direction_vector  |-> maneuver.direction_vector,
         burn_duration_s   |-> maneuver.burn_duration_s,
         fuel_cost_kg      |-> maneuver.fuel_cost_kg,
         safety_margin_km  |-> maneuver.safety_margin_km,
         safety_evaluation |-> safety_eval,
         status            |-> "pending",
         created_at        |-> utcnow_isoformat]

\* seeded fault: the emergency endpoint plans with the distance it was given
emergency_threat_data_as_given(threat_data) ==
    [k \in DOMAIN threat_data \cup {"urgency", "distance_km"} |->
        IF k = "urgency" THEN "high"
        ELSE IF k = "distance_km" THEN Get(threat_data, "distance_km", 10 * Km)
        ELSE threat_data[k]]

\* api/maneuvers.py:137-138
emergency_threat_data(threat_data) ==
    [k \in DOMAIN threat_data \cup {"urgency", "distance_km"} |->
        IF k = "urgency" THEN "high"
        ELSE IF k = "distance_km" THEN Min(Get(threat_data, "distance_km", 10 * Km), 5 * Km)
        ELSE threat_data[k]]

----------------------------------------------------------------------------
(* core/ai/physics_utils.py: the features of a pair of states, and          *)
(* core/ai/model2_risk_classifier.py: classify_for_sat_debris.              *)
(* Positions in km.  Distances come out in metres, for pairs at most 46 km  *)
(* apart (the square root is taken on 32-bit integers).                     *)

\* compute_distance(r1, r2), in metres
compute_distance(r1, r2) == sqrt_metres(RatInt(NormSq(Sub(r1, r2))))

\* compute_relative_velocity(v1, v2) in m/s, for velocities in km/s
compute_relative_velocity(v1, v2) == sqrt_metres(RatInt(NormSq(Sub(v1, v2))))

\* compute_angle_between(v1, v2) in degrees, defined for the pairs of
\* directions whose angle is a multiple of 45 degrees: cos^2 is 1, 1/2 or 0
compute_angle_between(v1, v2) ==
    LET dv    == Dot(v1, v2)
        n1_sq == NormSq(v1)
        n2_sq == NormSq(v2)
    IN  IF n1_sq = 0 \/ n2_sq = 0 THEN 0
        ELSE CASE dv = 0 -> 90
               [] dv * dv = n1_sq * n2_sq     /\ dv > 0 -> 0
               [] dv * dv = n1_sq * n2_sq     /\ dv < 0 -> 180
               [] 2 * dv * dv = n1_sq * n2_sq /\ dv > 0 -> 45
               [] 2 * dv * dv = n1_sq * n2_sq /\ dv < 0 -> 135

\* of compute_physics_features(sat, deb): distance, the only feature that
\* classify_for_sat_debris reads (lines 31-32)
classify_for_sat_debris(sat, deb) ==
    LET distance == compute_distance(<<sat.x, sat.y, sat.z>>, <<deb.x, deb.y, deb.z>>)
    IN  [risk_level |-> classify_distance(distance)]

----------------------------------------------------------------------------
(* core/ai/on_click_handler.py: handle_satellite_click                      *)
(* Positions in km; the current distance of a pair is carried as its        *)
(* square, which orders the pairs as the distance does.                     *)

\* compute_physics_features(sat, d)["distance"], squared
distance_now_sq(sat, d) == NormSq(Sub(<<sat.x, sat.y, sat.z>>, <<d.x, d.y, d.z>>))

\* list.sort(key=lambda x: x[0]): ascending, entries of equal distance keep
\* their order
RECURSIVE insert_by_distance(_, _)
insert_by_distance(sorted, entry) ==
    IF sorted = <<>> THEN <<entry>>
    ELSE IF Head(sorted).distance_sq <= entry.distance_sq
         THEN <<Head(sorted)>> \o insert_by_distance(Tail(sorted), entry)
         ELSE <<entry>> \o sorted

\* seeded fault: the entries stay in list order
dists_left_unsorted(entries) == entries

RECURSIVE sort_by_distance(_)
sort_by_distance(entries) ==
    IF entries = <<>> THEN <<>>
    ELSE insert_by_distance(sort_by_distance(SubSeq(entries, 1, Len(entries) - 1)),
                            entries[Len(entries)])

\* lines 27-30: one entry (distance, d) per debris object, in list order
dists_of(sat, debris_list_arg) ==
    [k \in 1..Len(debris_list_arg) |->
        [distance_sq |-> distance_now_sq(sat, debris_list_arg[k]),
         debris      |-> debris_list_arg[k]]]

\* seeded fault: the sort is applied to the caller's list as well
click_objects_sorting_the_input(sat, debris_list_arg) ==
    LET sorted == sort_by_distance(dists_of(sat, debris_list_arg))
    IN  [sat         |-> sat,
         debris_list |-> [k \in 1..Len(sorted) |-> sorted[k].debris],
         dists       |-> sorted]

\* The objects of the call after line 33: the two arguments and the local
\* list dists.  Only dists is written to (append, sort).
click_objects(sat, debris_list_arg) ==
    LET built == [sat |-> sat, debris_list |-> debris_list_arg,
                  dists |-> dists_of(sat, debris_list_arg)]
    IN  [built EXCEPT !.dists = sort_by_distance(@)]

\* range(n): empty for n <= 0
range_len(n) == Max(0, n)

\* The result carries the entries under "nearest"; model1_risk and features
\* of an entry are functions of (sat, deb) and are left out.
\* sat_after and debris_list_after are the arguments as the call leaves them.
handle_satellite_click(sat, debris_list_arg, top_n, include_maneuver) ==
    LET objects == click_objects(sat, debris_list_arg)
        dists   == objects.dists
        out_items ==
            [i \in 1..range_len(Min(top_n, Len(dists))) |->
                [debris          |-> dists[i].debris,
                 distance_now_sq |-> dists[i].distance_sq,
                 model2_class    |-> classify_for_sat_debris(objects.sat, dists[i].debris),
                 maneuver        |-> IF include_maneuver
                                     THEN Some(suggest_maneuver_simple(objects.sat, dists[i].debris))
                                     ELSE None]]
    IN  [sat     |-> objects.sat,
         nearest |-> out_items,
         sat_after         |-> objects.sat,
         debris_list_after |-> objects.debris_list]

----------------------------------------------------------------------------
(* The engine's functions, called with inputs drawn from bounded sets.     *)
(* The engine keeps no state between calls: a call records its arguments   *)
(* and its result, and Return clears them before the next call.            *)

MaxEvents == 3
PosMax == 2

\* metres: around the band boundaries 5, 20 and 50 km
Distances == {0, 1, 4999, 5000, 5001, 19999, 20000, 20001, 49999, 50000, 50001, 80000}
\* m/s: around the escalation boundary 10 km/s
Speeds == {0, 7500, 10000, 10001, 15000}
\* degrees: around the escalation boundary 150
Angles == {0, 90, 150, 151, 180}

ScoreDistances == {0, 1000, 10000, 50000, 80000}
ScoreSpeeds == {0, 1000, 12000, 20000}
ScoreAngles == {0, 90, 180}
ScoreAltDiffs == {0, 1000, 50000, 80000}
ScoreTcaDistances == {None} \cup {Some(d) : d \in {0, 1000, 50000}}
ScoreTcaSeconds == {None} \cup {Some(t) : t \in {-3600, 0, 3600, 72 * 3600, 400000}}

\* positions in km
TcaPositions1 == {<<0, 0, 0>>, <<1, -1, 0>>}
TcaPositions2 == (-PosMax..PosMax) \X (-PosMax..PosMax) \X (-PosMax..PosMax)
\* velocities in 10^-7 km/s: 3 and 9 are below the stationarity guard, 12 is above it
TcaVelocities1 == {<<0, 0, 0>>, <<3, 0, 0>>}
TcaVelocities2 == {-12, -3, 0, 3, 12} \X {-12, -3, 0, 3, 12} \X {0, 3}

BatchSatellites ==
    { [id |-> "s1", x |-> 0, y |-> 0, z |-> 0],
      [id |-> "s2", x |-> 49, y |-> 49, z |-> 0],
      [id |-> "s3", x |-> -1, y |-> -1, z |-> 99] }

BatchDebris ==
    { [id |-> "d1", x |-> 0, y |-> 0, z |-> 0],
      [id |-> "d2", x |-> 3, y |-> 4, z |-> 0],
      [id |-> "d3", x |-> 50, y |-> 50, z |-> 0],
      [id |-> "d4", x |-> 50, y |-> 49, z |-> 0],
      [id |-> "d5", x |-> -1, y |-> -1, z |-> 0],
      [id |-> "d6", x |-> -1, y |-> 0, z |-> 100],
      [id |-> "d7", x |-> 6, y |-> 8, z |-> 0],
      [id |-> "d8", x |-> -51, y |-> 0, z |-> 0],
      [id |-> "d9", x |-> 100, y |-> 0, z |-> 0] }

\* the default (10 km), the prefilter's cell size, and the distances of d2
\* and d7 from s1
BatchThresholds == {None, Some(50), Some(5), Some(10)}

EventKinds == [risk_level : 1..3, risk_score : {2000, 9000}]

\* event lists as the loops build them: the id is the position in scan order
EventLists ==
    { [k \in 1..Len(ks) |-> [id |-> k, risk_level |-> ks[k].risk_level,
                             risk_score |-> ks[k].risk_score]] :
      ks \in SeqsUpTo(EventKinds, MaxEvents) }

MaxBurns == 4

\* plans as _compute_basic_maneuver returns them, for threat_distance_km =
\* 15, 14.996, 14.992, 14.9, 10, 7.668 and 0
BaselinePlans ==
    { [delta_v_mps |-> p[1], direction_vector |-> "radial", burn_duration_s |-> p[2],
       fuel_cost_kg |-> p[3], safety_margin_km |-> p[4]] :
      p \in { <<1500, 150, 5084, 150>>, <<1501, 150, 5087, 150>>, <<1502, 150, 5091, 150>>,
              <<1525, 152, 5168, 153>>, <<2750, 275, 9301, 275>>, <<3333, 333, 11261, 333>>,
              <<5250, 525, 17681, 525>> } }

\* burn counts: the small ones, and two beyond the significand of a double
BurnCounts == (1..MaxBurns) \cup {DOUBLE_SIGNIFICAND_BITS + 1, DOUBLE_SIGNIFICAND_BITS + 7}

MaxScanEvents == 12

\* one scan result of every length up to MaxScanEvents, as the scan returns
\* it: events in scan order within a level, the highest level first
ScanResults ==
    { [k \in 1..n |->
          LET level == IF 3 * k <= n THEN 3 ELSE IF 3 * k <= 2 * n THEN 2 ELSE 1
          IN  [satellite_id |-> "s1", debris_id |-> k, distance_km |-> k * Km,
               risk_score |-> 5000, risk_level |-> level, risk_label |-> labels[level][1],
               recommended_action |-> labels[level][3]]] :
      n \in 0..MaxScanEvents }

\* states [x, y, z, vx, vy, vz]: positions in km, velocities in 10^-7 km/s
StateOf(r, v) == [x |-> r[1], y |-> r[2], z |-> r[3], vx |-> v[1], vy |-> v[2], vz |-> v[3]]

ManeuverSats == {StateOf(<<0, 0, 0>>, v) : v \in {<<0, 0, 0>>, <<3, 0, 0>>}}

\* coincident, on the z axis, and off it
ManeuverDebrisPositions ==
    {<<0, 0, 0>>, <<0, 0, 5>>, <<0, 0, -2>>, <<3, 4, 0>>, <<5, 2, 0>>, <<1, 2, 2>>, <<3, 0, 0>>}

\* zero, below 1e-6 km/s, along the z axis, nearly along it, along and
\* nearly along some of the positions
ManeuverDebrisVelocities ==
    {<<0, 0, 0>>, <<3, 0, 0>>, <<0, 0, 12>>, <<0, 0, 9>>, <<12, 16, 0>>, <<12, 5, 0>>,
     <<3, 0, 12>>, <<-12, 0, 0>>, <<6, 8, 0>>}

ManeuverDebris ==
    {StateOf(r, v) : r \in ManeuverDebrisPositions, v \in ManeuverDebrisVelocities}

ClassifyDistance ==
    /\ op = "none"
    /\ \E distance \in Distances :
        /\ op' = "classify_distance"
        /\ args' = [distance |-> distance]
        /\ ret' = classify_distance(distance)
    /\ UNCHANGED <<scanVars, streamVars, storeVars>>

ClassifyRiskAdvanced ==
    /\ op = "none"
    /\ \E distance \in Distances, relative_velocity \in Speeds, angle \in Angles :
        /\ op' = "classify_risk_advanced"
        /\ args' = [distance |-> distance, relative_velocity |-> relative_velocity,
                    angle |-> angle]
        /\ ret' = classify_risk_advanced(distance, relative_velocity, angle)
    /\ UNCHANGED <<scanVars, streamVars, storeVars>>

PredictRiskFromFeatures ==
    /\ op = "none"
    /\ \E distance \in ScoreDistances, rel_velocity \in ScoreSpeeds, angle \in ScoreAngles,
          altitude_diff \in ScoreAltDiffs, distance_at_tca \in ScoreTcaDistances,
          tca_seconds \in ScoreTcaSeconds :
        /\ op' = "predict_risk_from_features"
        /\ args' = [distance |-> distance, rel_velocity |-> rel_velocity, angle |-> angle,
                    altitude_diff |-> altitude_diff, distance_at_tca |-> distance_at_tca,
                    tca_seconds |-> tca_seconds]
        /\ ret' = predict_risk_from_features(distance, rel_velocity, angle, altitude_diff,
                                             distance_at_tca, tca_seconds)
    /\ UNCHANGED <<scanVars, streamVars, storeVars>>

TimeOfClosestApproach ==
    /\ op = "none"
    /\ \E r1 \in TcaPositions1, v1 \in TcaVelocities1, r2 \in TcaPositions2,
          v2 \in TcaVelocities2 :
        /\ op' = "time_of_closest_approach"
        /\ args' = [r1 |-> r1, v1 |-> v1, r2 |-> r2, v2 |-> v2]
        /\ ret' = time_of_closest_approach(r1, v1, r2, v2)
    /\ UNCHANGED <<scanVars, streamVars, storeVars>>

BatchCollisionCheck ==
    /\ op = "none"
    /\ \E satellite \in BatchSatellites, debris \in SeqsUpTo(BatchDebris, MaxDebris),
          threshold_km \in BatchThresholds :
        /\ op' = "batch_collision_check"
        /\ args' = [satellite |-> satellite, debris_list |-> debris,
                    threshold_km |-> threshold_km]
        /\ ret' = batch_collision_check(satellite, debris, threshold_km)
    /\ UNCHANGED <<scanVars, streamVars, storeVars>>

\* lines 115-116 of calculate_collision_risks on a list of events
SortCollisionEvents ==
    /\ op = "none"
    /\ \E events \in EventLists :
        /\ op' = "sort_collision_events"
        /\ args' = [events |-> events]
        /\ ret' = sort_by_risk_level(events)
    /\ UNCHANGED <<scanVars, streamVars, storeVars>>

SuggestMultiBurnManeuver ==
    /\ op = "none"
    /\ \E base \in BaselinePlans, num_burns \in BurnCounts :
        /\ op' = "suggest_multi_burn_maneuver"
        /\ args' = [base |-> base, num_burns |-> num_burns]
        /\ ret' = suggest_multi_burn_maneuver(base, num_burns)
    /\ UNCHANGED <<scanVars, streamVars, storeVars>>

SuggestManeuverSimple ==
    /\ op = "none"
    /\ \E sat \in ManeuverSats, deb \in ManeuverDebris :
        /\ op' = "suggest_maneuver_simple"
        /\ args' = [sat |-> sat, deb |-> deb]
        /\ ret' = suggest_maneuver_simple(sat, deb)
    /\ UNCHANGED <<scanVars, streamVars, storeVars>>

\* maneuver dicts with any of the three keys missing
ManeuverDict(delta_v, safety_margin, fuel_cost) ==
    LET given == [delta_v_mps |-> delta_v, safety_margin_km |-> safety_margin,
                  fuel_cost_kg |-> fuel_cost]
    IN  [key \in {k \in DOMAIN given : ~IsNone(given[k])} |-> Val(given[key])]

\* margins around 0.5 km; fuel costs that put the efficiency on and around
\* 0.02 and 0.05, zero and negative
PlanDeltaVs == {None, Some(0), Some(1500), Some(5250)}
PlanSafetyMargins == {None} \cup {Some(m) : m \in {0, 1, 3, 5, 6, 50, 51, 150}}
PlanFuelCosts ==
    {None} \cup {Some(f) : f \in {0, -500, 100, 1000, 5084, 10199, 10200, 25499, 25500, 30000}}

EvaluateManeuverSafety ==
    /\ op = "none"
    /\ \E delta_v \in PlanDeltaVs, safety_margin \in PlanSafetyMargins,
          fuel_cost \in PlanFuelCosts :
        /\ op' = "evaluate_maneuver_safety"
        /\ args' = [maneuver |-> ManeuverDict(delta_v, safety_margin, fuel_cost),
                    satellite_state |-> <<>>]
        /\ ret' = evaluate_maneuver_safety(args'.maneuver, args'.satellite_state)
    /\ UNCHANGED <<scanVars, streamVars, storeVars>>

\* states with velocities in km/s: at rest, orbital speed along x, and the
\* same speed at 0, 45, 90, 135 and 180 degrees to it; 6 km/s head-on gives
\* a relative speed above 10 km/s, 5 km/s head-on one of exactly 10 km/s
PairSats == {StateOf(<<0, 0, 0>>, v) : v \in {<<6, 0, 0>>, <<5, 0, 0>>, <<0, 0, 0>>}}

PairDebrisPositions ==
    {<<0, 0, 0>>, <<0, 3, 0>>, <<3, 4, 0>>, <<3, 4, 1>>, <<12, 16, 0>>, <<12, 16, 1>>,
     <<27, 36, 0>>}

PairDebrisVelocities ==
    {<<0, 0, 0>>, <<6, 0, 0>>, <<6, 6, 0>>, <<0, 6, 0>>, <<-6, 6, 0>>, <<-6, 0, 0>>,
     <<-5, 0, 0>>, <<-9, 9, 0>>}

PairDebris == {StateOf(r, v) : r \in PairDebrisPositions, v \in PairDebrisVelocities}

ClassifyForSatDebris ==
    /\ op = "none"
    /\ \E sat \in PairSats, deb \in PairDebris :
        /\ op' = "classify_for_sat_debris"
        /\ args' = [sat |-> sat, deb |-> deb]
        /\ ret' = classify_for_sat_debris(sat, deb)
    /\ UNCHANGED <<scanVars, streamVars, storeVars>>

\* metres: around 1 km and 50 km
TcaDistances == {0, 1, 500, 999, 1000, 1001, 2000, 25000, 49995, 49999, 50000, 50001,
                 60000, 120000}

\* lines 52-69 of suggest_maneuver_simple on a distance at closest approach
ManeuverMagnitude ==
    /\ op = "none"
    /\ \E dist_at_tca \in TcaDistances :
        /\ op' = "maneuver_magnitude"
        /\ args' = [dist_at_tca |-> dist_at_tca]
        /\ ret' = [severity   |-> severity_of(dist_at_tca),
                   dv_mag     |-> dv_mag_of(severity_of(dist_at_tca)),
                   confidence |-> confidence_of(severity_of(dist_at_tca))]
    /\ UNCHANGED <<scanVars, streamVars, storeVars>>

\* positions in mm, so that times are in units of 10 s; the default window
\* of 3600 s is 360
TIME_WINDOW_SEC == 360

ApproachPositions ==
    {[x |-> a, y |-> b, z |-> 0] : a \in {-40000, -36000, -3600, -100, -24, 0, 24}, b \in {0, 3, 4}}

\* relative speeds of 0, below 1e-6 km/s, between 1e-6 and 1e-5 km/s, and
\* of 1e-5 km/s and above
ApproachVelocities ==
    {[vx |-> v, vy |-> 0, vz |-> 0] : v \in {0, 3, 10, 12, -12, 30, 99, 100, -100}}

ComputeClosestApproach ==
    /\ op = "none"
    /\ \E pos2 \in ApproachPositions, vel2 \in ApproachVelocities :
        /\ op' = "compute_closest_approach"
        /\ args' = [pos1 |-> [x |-> 0, y |-> 0, z |-> 0], vel1 |-> [vx |-> 0, vy |-> 0, vz |-> 0],
                    pos2 |-> pos2, vel2 |-> vel2, time_window_sec |-> TIME_WINDOW_SEC]
        /\ ret' = compute_closest_approach(args'.pos1, args'.vel1, pos2, vel2, TIME_WINDOW_SEC)
    /\ UNCHANGED <<scanVars, streamVars, storeVars>>

MaxClickDebris == 3

\* two at the same distance (5 km), one nearer, one coincident, one farther
ClickDebris ==
    {StateOf(r, <<12, 5, 0>>) :
        r \in {<<0, 0, 5>>, <<3, 4, 0>>, <<1, 2, 2>>, <<0, 0, 0>>, <<5, 2, 0>>}}

TopNs == -1..(MaxClickDebris + 1)

HandleSatelliteClick ==
    /\ op = "none"
    /\ \E sat \in ManeuverSats, debris \in SeqsUpTo(ClickDebris, MaxClickDebris),
          top_n \in TopNs, include_maneuver \in BOOLEAN :
        /\ op' = "handle_satellite_click"
        /\ args' = [sat |-> sat, debris_list |-> debris, top_n |-> top_n,
                    include_maneuver |-> include_maneuver]
        /\ ret' = handle_satellite_click(sat, debris, top_n, include_maneuver)
    /\ UNCHANGED <<scanVars, streamVars, storeVars>>

\* lines 39-55 of risks_socket on a scan result
RisksSocketPayload ==
    /\ op = "none"
    /\ \E events \in ScanResults :
        /\ op' = "risks_socket_payload"
        /\ args' = [events |-> events]
        /\ ret' = payload_of(events)
    /\ UNCHANGED <<scanVars, streamVars, storeVars>>

\* the function returns to its caller; nothing of the call is kept
Return ==
    /\ op /= "none"
    /\ op' = "none"
    /\ args' = <<>>
    /\ ret' = <<>>
    /\ UNCHANGED <<scanVars, streamVars, storeVars>>

Init == CallsIdle /\ ScanIdle /\ StreamIdle /\ StoreIdle

Next ==
    \/ ClassifyDistance
    \/ ClassifyRiskAdvanced
    \/ PredictRiskFromFeatures
    \/ TimeOfClosestApproach
    \/ BatchCollisionCheck
    \/ SortCollisionEvents
    \/ SuggestMultiBurnManeuver
    \/ SuggestManeuverSimple
    \/ RisksSocketPayload
    \/ HandleSatelliteClick
    \/ EvaluateManeuverSafety
    \/ ClassifyForSatDebris
    \/ ManeuverMagnitude
    \/ ComputeClosestApproach
    \/ Return

Spec == Init /\ [][Next]_vars

----------------------------------------------------------------------------
(* services/alert_service.py, api/alerts.py, services/maneuver_service.py   *)
(* and api/maneuvers.py: the requests that write to the stores.  A handler  *)
(* runs to its end on the event loop: it awaits nothing that yields.        *)

SatelliteIds == {"sat-1"}

\* what uuid.uuid4() can return for a maneuver, and for an alert
ManeuverIds == {"m-1"}
AlertIds == {"a-1", "a-2"}

\* the ids a client can name: the alerts, and one that is never created
RequestedAlertIds == AlertIds \cup {"a-0"}

\* threat distances in metres: beyond, at and inside the 15 km of the
\* urgency, around the 5 km of the emergency endpoint, and negative; none
\* on a half unit of delta_v, where the direction of round(, 2) is that of
\* the double
ThreatDistances ==
    {-1000, 0, 3000, 4999, 5000, 5001, 7668, 10000, 14900, 14992, 14996, 14999,
     15000, 15001, 20000}

\* request bodies with and without distance_km
ThreatDataSet ==
    {[k \in {} |-> 0]} \cup {[distance_km |-> d] : d \in ThreatDistances}

AlertBodies ==
    {[alert_type |-> "collision", severity |-> "high", title |-> "Warning",
      message |-> "Collision risk detected", satellite_id |-> "sat-1"]}

\* an id uuid4 has not returned before
Unused(table, ids) ==
    {id \in ids : id \notin DOMAIN remote[table] /\ row_of(cache[table], id) = 0}

\* the alert is in a store
AlertExists(alert_id) ==
    \/ alert_id \in DOMAIN remote["alerts"]
    \/ row_of(cache["alerts"], alert_id) # 0

\* POST /plan: api/maneuvers.py:14-45 and ManeuverService.plan_maneuver
PlanManeuver ==
    /\ op = "none"
    /\ \E satellite_id \in SatelliteIds, threat_data \in ThreatDataSet,
          outcome \in SupabaseOutcomes, uuid4 \in Unused("maneuvers", ManeuverIds) :
        LET maneuver_plan == maneuver_plan_of(uuid4, satellite_id, threat_data)
            stored == insert(outcome, remote, cache, "maneuvers", maneuver_plan)
        IN  /\ remote' = stored.remote
            /\ cache' = stored.cache
            /\ op' = "plan_maneuver"
            /\ args' = [satellite_id |-> satellite_id, threat_data |-> threat_data,
                        outcome |-> outcome]
            /\ ret' = [status_code |-> 200, data |-> maneuver_plan]
    /\ UNCHANGED <<scanVars, streamVars, threadVars>>

\* POST /emergency-plan: api/maneuvers.py:121-146
EmergencyManeuverPlan ==
    /\ op = "none"
    /\ \E satellite_id \in SatelliteIds, threat_data \in ThreatDataSet,
          outcome \in SupabaseOutcomes, uuid4 \in Unused("maneuvers", ManeuverIds) :
        LET maneuver_plan == maneuver_plan_of(uuid4, satellite_id,
                                              emergency_threat_data(threat_data))
            stored == insert(outcome, remote, cache, "maneuvers", maneuver_plan)
        IN  /\ remote' = stored.remote
            /\ cache' = stored.cache
            /\ op' = "emergency_maneuver_plan"
            /\ args' = [satellite_id |-> satellite_id, threat_data |-> threat_data,
                        outcome |-> outcome]
            /\ ret' = [status_code |-> 200, data |-> maneuver_plan]
    /\ UNCHANGED <<scanVars, streamVars, threadVars>>

\* AlertService.create_alert (lines 17-30): the stores after it and its result
create_alert(outcome, tables, local, uuid4, alert_data) ==
    LET alert == [k \in DOMAIN alert_data
                        \cup {"id", "acknowledged", "created_at", "updated_at"} |->
                     IF k = "id" THEN uuid4
                     ELSE IF k = "acknowledged" THEN FALSE
                     ELSE IF k \in {"created_at", "updated_at"} THEN utcnow_isoformat
                     ELSE alert_data[k]]
        stored == insert(outcome, tables, local, "alerts", alert)
    IN  [remote |-> stored.remote,
         cache  |-> upsert(stored.cache, "alerts", alert),
         \* result or alert
         result |-> IF IsNone(stored.result) THEN alert ELSE Val(stored.result)]

\* POST /alerts/: api/alerts.py:63-79
CreateAlert ==
    /\ op = "none"
    /\ \E alert \in AlertBodies, outcome \in SupabaseOutcomes,
          uuid4 \in Unused("alerts", AlertIds) :
        LET created == create_alert(outcome, remote, cache, uuid4, alert)
        IN  /\ remote' = created.remote
            /\ cache' = created.cache
            /\ op' = "create_alert"
            /\ args' = [alert |-> alert, outcome |-> outcome]
            /\ ret' = [status_code |-> 200, data |-> created.result]
    /\ UNCHANGED <<scanVars, streamVars, threadVars>>

\* seeded fault: what update found is returned as it is, None included
acknowledge_alert_returning_update(outcome, tables, local, alert_id) ==
    LET update_data == [acknowledged |-> TRUE, acknowledged_at |-> utcnow_isoformat,
                        updated_at |-> utcnow_isoformat]
        updated == update(outcome, tables, local, "alerts", alert_id, update_data)
    IN  [remote |-> updated.remote,
         cache  |-> upsert(updated.cache, "alerts", with_id(alert_id, update_data)),
         result |-> updated.result]

\* AlertService.acknowledge_alert (lines 61-71); the result is an option to
\* carry a None, which the code never returns
acknowledge_alert(outcome, tables, local, alert_id) ==
    LET update_data == [acknowledged |-> TRUE, acknowledged_at |-> utcnow_isoformat,
                        updated_at |-> utcnow_isoformat]
        updated == update(outcome, tables, local, "alerts", alert_id, update_data)
    IN  [remote |-> updated.remote,
         cache  |-> upsert(updated.cache, "alerts", with_id(alert_id, update_data)),
         \* result or {"id": alert_id, **update_data}
         result |-> IF IsNone(updated.result) THEN Some(with_id(alert_id, update_data))
                    ELSE updated.result]

\* PATCH /alerts/{alert_id}/acknowledge: api/alerts.py:83-99
AcknowledgeAlert ==
    /\ op = "none"
    /\ \E alert_id \in RequestedAlertIds, outcome \in SupabaseOutcomes :
        LET acknowledged == acknowledge_alert(outcome, remote, cache, alert_id)
        IN  /\ remote' = acknowledged.remote
            /\ cache' = acknowledged.cache
            /\ op' = "acknowledge_alert"
            /\ args' = [alert_id |-> alert_id, outcome |-> outcome]
            \* if not result: raise HTTPException(status_code=404, ...)
            /\ ret' = IF IsNone(acknowledged.result) \/ DOMAIN Val(acknowledged.result) = {}
                      THEN [status_code |-> 404, detail |-> "Alert not found"]
                      ELSE [status_code |-> 200, data |-> Val(acknowledged.result),
                            message |-> "Alert acknowledged successfully"]
    /\ UNCHANGED <<scanVars, streamVars, threadVars>>

\* the response has been sent
Respond ==
    /\ op \in {"plan_maneuver", "emergency_maneuver_plan", "create_alert",
               "acknowledge_alert"}
    /\ op' = "none"
    /\ args' = <<>>
    /\ ret' = <<>>
    /\ UNCHANGED <<scanVars, streamVars, storeVars>>

InitStore == CallsIdle /\ ScanIdle /\ StreamIdle /\ StoreIdle

NextStore ==
    \/ PlanManeuver
    \/ EmergencyManeuverPlan
    \/ CreateAlert
    \/ AcknowledgeAlert
    \/ Respond

SpecStore == InitStore /\ [][NextStore]_vars

----------------------------------------------------------------------------
(* config/local_cache.py: LocalCache under threads.  A thread calls one     *)
(* operation at a time: it waits at `with _lock`, runs the database section *)
(* and leaves the with block, on a return, at its end or on an exception.   *)
(* thread_pc is "idle", "with_lock" (waiting for the lock), "section" (the  *)
(* connection is open) or "execute" (upsert: the statement is built).       *)

\* the tables a caller can name: one of the cache, and one it does not have
CalledTables == {"alerts", "no_such_table"}

\* records with and without an id, with an id only, and two for one id
UpsertRecords ==
    {[id |-> "a-1", message |-> "m1"], [id |-> "a-1", message |-> "m2"],
     [id |-> "a-2", message |-> "m1"], [message |-> "m1"], [id |-> "a-1"]}

CacheCalls ==
    {[name |-> "upsert", table |-> "alerts", record |-> r] : r \in UpsertRecords}
    \cup {[name |-> "upsert", table |-> "no_such_table", record |-> [id |-> "a-1", message |-> "m1"]]}
    \cup {[name |-> "get_all", table |-> table] : table \in CalledTables}
    \cup {[name |-> "get_by_id", table |-> "alerts", record_id |-> "a-1"]}
    \cup {[name |-> "delete", table |-> "alerts", record_id |-> "a-1"]}
    \cup {[name |-> "_ensure_db"]}

\* seeded fault: the section is entered without looking at the lock
acquired_unlocked(holder) == TRUE

\* _lock.acquire() returns when no thread holds the lock
acquired(holder) == IsNone(holder)

\* PRAGMA table_info(table): the columns, none for a table that is not there
schema_info(table) == IF table \in Tables THEN TABLE_DEFINITIONS[table] ELSE {}

\* lines 95-111 for any table name
filtered_of(call) ==
    [k \in DOMAIN call.record \cap schema_info(call.table) |->
        IF k = "created_at" THEN timestamp(call.record[k]) ELSE call.record[k]]

\* the rows without the one of this id (DELETE FROM table WHERE id = ?)
RECURSIVE rows_without(_, _)
rows_without(rows, record_id) ==
    IF rows = <<>> THEN <<>>
    ELSE IF Head(rows).id = Some(record_id) THEN rows_without(Tail(rows), record_id)
    ELSE <<Head(rows)>> \o rows_without(Tail(rows), record_id)

\* a thread calls an operation of the cache
Call(t) ==
    /\ thread_pc[t] = "idle"
    /\ \E call \in CacheCalls :
        thread_call' = [thread_call EXCEPT ![t] = call]
    /\ thread_pc' = [thread_pc EXCEPT ![t] = "with_lock"]
    /\ UNCHANGED <<lock, cache>>

\* with _lock: ... conn = self._connect(); cur = conn.cursor()
Acquire(t) ==
    /\ thread_pc[t] = "with_lock"
    /\ acquired(lock)
    /\ lock' = Some(t)
    /\ thread_pc' = [thread_pc EXCEPT ![t] = "section"]
    /\ UNCHANGED <<thread_call, cache>>

\* the thread leaves the with block and the call
Leave(t) ==
    /\ lock' = None
    /\ thread_pc' = [thread_pc EXCEPT ![t] = "idle"]
    /\ thread_call' = [thread_call EXCEPT ![t] = <<>>]

\* upsert, lines 91-115: the record is filtered; without a column or an id
\* the connection is closed and the call returns
UpsertFilter(t) ==
    /\ thread_pc[t] = "section"
    /\ thread_call[t].name = "upsert"
    /\ LET filtered_record_t == filtered_of(thread_call[t])
       IN  IF DOMAIN filtered_record_t = {} \/ "id" \notin DOMAIN filtered_record_t
           THEN Leave(t)
           ELSE /\ thread_pc' = [thread_pc EXCEPT ![t] = "execute"]
                /\ UNCHANGED <<lock, thread_call>>
    /\ UNCHANGED cache

\* upsert, lines 117-131: the statement is executed and committed, or
\* refused and logged; finally the connection is closed
UpsertExecute(t) ==
    /\ thread_pc[t] = "execute"
    /\ LET table == thread_call[t].table
       IN  cache' = [cache EXCEPT ![table] =
                        sqlite_upsert(table, @, filtered_of(thread_call[t]))]
    /\ Leave(t)

\* get_all and get_by_id: a SELECT, which raises for a table that is not
\* there; the rows are made into dicts after the with block
Select(t) ==
    /\ thread_pc[t] = "section"
    /\ thread_call[t].name \in {"get_all", "get_by_id"}
    /\ Leave(t)
    /\ UNCHANGED cache

\* delete, lines 153-161
Delete(t) ==
    /\ thread_pc[t] = "section"
    /\ thread_call[t].name = "delete"
    /\ LET table == thread_call[t].table
       IN  cache' = [cache EXCEPT ![table] = rows_without(@, thread_call[t].record_id)]
    /\ Leave(t)

\* _ensure_db, lines 77-84: CREATE TABLE IF NOT EXISTS leaves a table that
\* is there as it is
EnsureDb(t) ==
    /\ thread_pc[t] = "section"
    /\ thread_call[t].name = "_ensure_db"
    /\ Leave(t)
    /\ UNCHANGED cache

\* the steps of a thread that is inside the with block
InSection(t) ==
    UpsertFilter(t) \/ UpsertExecute(t) \/ Select(t) \/ Delete(t) \/ EnsureDb(t)

Calls == \E t \in Threads : Call(t) /\ UNCHANGED <<callVars, scanVars, streamVars, remote>>
Acquires == \E t \in Threads : Acquire(t) /\ UNCHANGED <<callVars, scanVars, streamVars, remote>>
UpsertFilters ==
    \E t \in Threads : UpsertFilter(t) /\ UNCHANGED <<callVars, scanVars, streamVars, remote>>
UpsertExecutes ==
    \E t \in Threads : UpsertExecute(t) /\ UNCHANGED <<callVars, scanVars, streamVars, remote>>
Selects == \E t \in Threads : Select(t) /\ UNCHANGED <<callVars, scanVars, streamVars, remote>>
Deletes == \E t \in Threads : Delete(t) /\ UNCHANGED <<callVars, scanVars, streamVars, remote>>
EnsureDbs == \E t \in Threads : EnsureDb(t) /\ UNCHANGED <<callVars, scanVars, streamVars, remote>>

InitCache == CallsIdle /\ ScanIdle /\ StreamIdle /\ StoreIdle

NextCache ==
    \/ Calls
    \/ Acquires
    \/ UpsertFilters
    \/ UpsertExecutes
    \/ Selects
    \/ Deletes
    \/ EnsureDbs

SpecCache == InitCache /\ [][NextCache]_vars

\* a thread that holds the lock is running: it is scheduled until it leaves
SpecCacheFair ==
    SpecCache /\ WF_vars(UpsertFilters \/ UpsertExecutes \/ Selects \/ Deletes \/ EnsureDbs)

----------------------------------------------------------------------------
(* Properties *)

\* the pairs of the catalog whose raw distance is below 50 km
PairsWithinThreshold ==
    {pr \in (1..Len(satellites)) \X (1..Len(debris_list)) :
        within_monitoring_threshold(satellites[pr[1]], debris_list[pr[2]])}

\* C1: the catalog-wide scan never ends in an error state, and when it
\* returns it returns one event for each satellite-debris pair whose raw
\* distance is below 50 km.
C1_ScanCompletesWithOneEventPerPair ==
    /\ pc /= "raised"
    /\ pc = "returned" => Len(collision_events) = Cardinality(PairsWithinThreshold)

C3_FloorCell(x) == CHOOSE c \in -4..4 : cell_size * c <= x /\ x < cell_size * (c + 1)

C3_CellDistance(o1, o2) ==
    Abs(C3_FloorCell(o1.x) - C3_FloorCell(o2.x))
    + Abs(C3_FloorCell(o1.y) - C3_FloorCell(o2.y))
    + Abs(C3_FloorCell(o1.z) - C3_FloorCell(o2.z))

\* C3: batch_collision_check keeps a debris object as a candidate if and
\* only if the Manhattan distance between its grid cell and the satellite's
\* is <= 1, the cell being the per-axis floor of coordinate / 50 km.
C3_CandidateIffCellDistanceAtMostOne ==
    op = "batch_collision_check" =>
        LET Kept(debris) == C3_CellDistance(args.satellite, debris) <= 1
        IN  ret.candidate_debris = SelectSeq(args.debris_list, Kept)

\* C3 witness: a call with a negative coordinate on each side of the test:
\* one debris object kept, one dropped.
C3_Witness ==
    /\ op = "batch_collision_check"
    /\ \E k, m \in 1..Len(args.debris_list) :
        /\ args.debris_list[k].x < 0
        /\ args.debris_list[m].x < 0
        /\ \E n \in 1..Len(ret.candidate_debris) : ret.candidate_debris[n] = args.debris_list[k]
        /\ \A n \in 1..Len(ret.candidate_debris) : ret.candidate_debris[n] /= args.debris_list[m]

\* the cells of the two objects touch at an edge or a corner only
C4_DiagonallyAdjacent(o1, o2) ==
    /\ C3_CellDistance(o1, o2) >= 2
    /\ Abs(C3_FloorCell(o1.x) - C3_FloorCell(o2.x)) <= 1
    /\ Abs(C3_FloorCell(o1.y) - C3_FloorCell(o2.y)) <= 1
    /\ Abs(C3_FloorCell(o1.z) - C3_FloorCell(o2.z)) <= 1

C4_Threshold == IF IsNone(args.threshold_km) THEN COLLISION_THRESHOLD_KM ELSE Val(args.threshold_km)

\* C4: a debris object in a diagonally adjacent grid cell is dropped by the
\* prefilter whatever its distance: the result holds no event for it, also
\* when its exact distance is below threshold_km.
C4_DiagonalNeighbourDropped ==
    op = "batch_collision_check" =>
        \A k \in 1..Len(args.debris_list) :
            C4_DiagonallyAdjacent(args.satellite, args.debris_list[k]) =>
                \A n \in 1..Len(ret.collisions) :
                    ret.collisions[n].debris_id /= args.debris_list[k].id

\* C4 witness: a debris object in a diagonally adjacent cell, closer than
\* threshold_km, with no event in the result.
C4_Witness ==
    /\ op = "batch_collision_check"
    /\ \E k \in 1..Len(args.debris_list) :
        /\ C4_DiagonallyAdjacent(args.satellite, args.debris_list[k])
        /\ compute_distance_sq(args.satellite, args.debris_list[k]) < C4_Threshold * C4_Threshold
        /\ \A n \in 1..Len(ret.collisions) :
            ret.collisions[n].debris_id /= args.debris_list[k].id

\* the level of the band a distance (metres) lies in
C5_Band(distance) ==
    CASE distance > 50 * Km -> 0
      [] 20 * Km < distance /\ distance <= 50 * Km -> 1
      [] 5 * Km < distance /\ distance <= 20 * Km -> 2
      [] distance <= 5 * Km -> 3

\* C5: classify_distance maps a distance to the level of its band:
\* > 50 -> 0, (20, 50] -> 1, (5, 20] -> 2, <= 5 -> 3; the result is in 0..3.
C5_DistanceBands ==
    op = "classify_distance" =>
        /\ ret \in 0..3
        /\ args.distance > 50 * Km => ret = 0
        /\ (20 * Km < args.distance /\ args.distance <= 50 * Km) => ret = 1
        /\ (5 * Km < args.distance /\ args.distance <= 20 * Km) => ret = 2
        /\ args.distance <= 5 * Km => ret = 3

\* C5 witness: a boundary distance classified into the higher-risk band.
C5_Witness ==
    /\ op = "classify_distance"
    /\ args.distance = 20 * Km
    /\ ret = 2

C6_Escalates == args.relative_velocity > 10 * Kmps /\ args.angle > 150

\* C6: classify_risk_advanced returns the band level plus 1 capped at 3
\* when relative_velocity > 10 and angle > 150, and the band level
\* otherwise; the level is never below the band level; label, color and
\* action are those of the returned level.
C6_EscalationRule ==
    op = "classify_risk_advanced" =>
        /\ ret.risk_level = (IF C6_Escalates THEN Min(C5_Band(args.distance) + 1, 3)
                             ELSE C5_Band(args.distance))
        /\ ret.risk_level >= C5_Band(args.distance)
        /\ <<ret.label, ret.color, ret.action>> = labels[ret.risk_level]

\* C6 witness: an escalated call that raised the level from 2 to 3.
C6_Witness ==
    /\ op = "classify_risk_advanced"
    /\ C6_Escalates
    /\ C5_Band(args.distance) = 2
    /\ ret.risk_level = 3
    /\ ret.label = "High Risk"

\* C7: for fixed relative_velocity and angle the level is monotone in the
\* distance: no larger distance gets a higher level than this call's.
C7_MonotoneInDistance ==
    op = "classify_risk_advanced" =>
        \A d2 \in Distances :
            args.distance <= d2 =>
                classify_risk_advanced(d2, args.relative_velocity, args.angle).risk_level
                    <= ret.risk_level

\* C7 witness: an escalated call at the cap, with a larger distance that
\* gets a strictly lower level.
C7_Witness ==
    /\ op = "classify_risk_advanced"
    /\ C6_Escalates
    /\ C5_Band(args.distance) = 3
    /\ \E d2 \in Distances :
        /\ args.distance < d2
        /\ classify_risk_advanced(d2, args.relative_velocity, args.angle).risk_level
               < ret.risk_level

\* C8: predict_risk_from_features returns a value in [0, 1] for every
\* non-negative distance, speed and altitude difference, every angle in
\* [0, 180], and distance_at_tca / tca_seconds present or absent.
C8_ScoreInUnitInterval ==
    op = "predict_risk_from_features" => 0 <= ret /\ ret <= FP

\* C8 witness: a call whose weighted sum exceeds 1 and is clamped, with
\* tca_seconds negative.
C8_Witness ==
    /\ op = "predict_risk_from_features"
    /\ ~IsNone(args.tca_seconds)
    /\ Val(args.tca_seconds) < 0
    /\ risk_sum(args.distance, args.rel_velocity, args.angle, args.altitude_diff,
                args.distance_at_tca, args.tca_seconds) > FP
    /\ ret = FP

C9_r_rel0 == Sub(args.r2, args.r1)
C9_v_rel == Sub(args.v2, args.v1)
C9_Closing == Dot(C9_r_rel0, C9_v_rel) < 0
C9_Receding == Dot(C9_r_rel0, C9_v_rel) > 0
C9_Stationary == NormSq(C9_v_rel) < V_REL_SQ_EPS

C10_SignFollowsRangeRate ==
    op = "time_of_closest_approach" =>
        /\ C9_Receding => RatLeq(ret.tca_seconds, RatInt(0))
        /\ C9_Closing => RatLess(RatInt(0), ret.tca_seconds)

\* C10 (amended): receding gives tca_seconds <= 0, and < 0 unless
\* |v_rel|^2 < 1e-12; closing gives tca_seconds > 0 unless
\* |v_rel|^2 < 1e-12, and then tca_seconds = 0.
C10_SignFollowsRangeRateOutsideGuard ==
    op = "time_of_closest_approach" =>
        /\ C9_Receding => RatLeq(ret.tca_seconds, RatInt(0))
        /\ (C9_Receding /\ ~C9_Stationary) => RatLess(ret.tca_seconds, RatInt(0))
        /\ (C9_Closing /\ ~C9_Stationary) => RatLess(RatInt(0), ret.tca_seconds)
        /\ (C9_Closing /\ C9_Stationary) => RatEq(ret.tca_seconds, RatInt(0))

\* C10 witness: a receding pair above the guard, with a negative
\* tca_seconds (the value is not clamped to the future).
C10_Witness ==
    /\ op = "time_of_closest_approach"
    /\ C9_Receding
    /\ ~C9_Stationary
    /\ RatLess(ret.tca_seconds, RatInt(0))

\* C11: the delta_v_mps values of the burns returned by
\* suggest_multi_burn_maneuver, each rounded to 2 decimals, sum to the
\* single-burn baseline delta_v_mps, for every baseline and every
\* num_burns >= 1 (a difference of one unit of 0.01 m/s is a relative
\* drift above 1e-6 for every baseline).
C11_BurnsSumToBaseline ==
    op = "suggest_multi_burn_maneuver" =>
        total_delta_v(ret) = args.base.delta_v_mps

RECURSIVE C12_Gcd(_, _)
C12_Gcd(a, b) == IF b = 0 THEN a ELSE C12_Gcd(b, a % b)

\* the square of the length of weight * dir, in lowest terms
C12_LenSq(term) ==
    LET n == term.weight * term.weight * NormSq(term.dir.vec)
        g == C12_Gcd(n, term.dir.norm_sq)
    IN  <<n \div g, term.dir.norm_sq \div g>>

\* dv_vector is the zero vector: dv_mag is 0, or its two terms cancel (both
\* are zero, or they have the same length and opposite directions)
C12_DvVectorIsZero(dv_vector) ==
    LET t1 == dv_vector.terms[1]
        t2 == dv_vector.terms[2]
    IN  \/ dv_vector.dv_mag = 0
        \/ /\ C12_LenSq(t1) = C12_LenSq(t2)
           /\ \/ C12_LenSq(t1)[1] = 0
              \/ /\ Cross(t1.dir.vec, t2.dir.vec) = <<0, 0, 0>>
                 /\ Dot(t1.dir.vec, t2.dir.vec) < 0

C12_r_rel0 == <<args.deb.x - args.sat.x, args.deb.y - args.sat.y, args.deb.z - args.sat.z>>
C12_v_rel == <<args.deb.vx - args.sat.vx, args.deb.vy - args.sat.vy, args.deb.vz - args.sat.vz>>

\* C12: suggest_maneuver_simple always ends its fallback chain with a perp
\* vector of norm >= 1e-6, the burn direction is that vector normalised to
\* unit length, and the delta-v vector is not the zero vector: for zero
\* relative velocity, coincident positions, relative position parallel to
\* relative velocity, and either of them parallel to the z axis.
C12_DirectionAndDeltaVNonZero ==
    op = "suggest_maneuver_simple" =>
        /\ ~norm_below_1e6(ret.perp.vec, ret.perp.unit_exp)
        /\ ret.perp_dir.vec = ret.perp.vec
        /\ ret.perp_dir.norm_sq = NormSq(ret.perp_dir.vec)
        /\ ~C12_DvVectorIsZero(ret.dv_vector)

\* C12 witness: a relative velocity above 1e-6 km/s along the z axis and a
\* relative position parallel to it: both cross products vanish and the
\* chain ends at the fixed axis.
C12_Witness ==
    /\ op = "suggest_maneuver_simple"
    /\ NormSq(C12_v_rel) >= 100
    /\ NormSq(C12_r_rel0) > 0
    /\ Cross(C12_v_rel, C12_r_rel0) = <<0, 0, 0>>
    /\ Cross(C12_v_rel, <<0, 0, 1>>) = <<0, 0, 0>>
    /\ ret.perp_dir = [vec |-> <<1, 0, 0>>, norm_sq |-> 1]

\* coincident positions and zero relative velocity
C12_WitnessCoincidentAtRest ==
    /\ op = "suggest_maneuver_simple"
    /\ NormSq(C12_v_rel) = 0
    /\ NormSq(C12_r_rel0) = 0
    /\ ret.perp_dir = [vec |-> <<1, 0, 0>>, norm_sq |-> 1]

\* this step hands a payload to the subscriber (send_json returned)
PayloadDelivered == stream_pc = "scan" /\ stream_pc' = "sleep"

\* C13: once the subscriber has disconnected no payload is delivered, and
\* none after the handler caught the exception (the broadcast in flight is
\* not completed); the handler, once ended, stays ended; and after a
\* disconnect the handler does end.
C13_StopsAfterDisconnect ==
    /\ [][(ws_client = "disconnected" \/ caught /= "none") => ~PayloadDelivered]_vars
    /\ [][stream_pc = "done" => stream_pc' = "done"]_vars
    /\ (ws_client = "disconnected") ~> (stream_pc = "done")

\* C13 witness: the subscriber left, the payload built for it raised
\* WebSocketDisconnect in send_json, and the handler ended without closing.
C13_Witness ==
    /\ ws_client = "disconnected"
    /\ stream_pc = "done"
    /\ caught = "WebSocketDisconnect"
    /\ payload /= None
    /\ close_code = None

\* C14: while the subscriber stays connected the handler does not end; a
\* payload is only delivered from a scan result that no earlier payload
\* used; and every scan is followed by a delivery (unless the subscriber
\* leaves).
C14_CycleRepeatsWhileConnected ==
    /\ [](ws_client = "connected" => stream_pc /= "done")
    /\ [][PayloadDelivered => ~result_used]_vars
    /\ (stream_pc = "scan") ~> (stream_pc = "sleep" \/ ws_client = "disconnected")

\* C15: a payload carries at most 10 events, and they are the first
\* min(10, n) events of the scan result, in its order, each reduced to the
\* nine keys of the message schema.
C15_PayloadIsFirstTen ==
    op = "risks_socket_payload" =>
        /\ Len(ret.events) <= 10
        /\ Len(ret.events) = Min(10, Len(args.events))
        /\ \A k \in 1..Len(ret.events) :
            \A key \in payload_keys : ret.events[k][key] = Get(args.events[k], key, None)

\* C15 witness: a scan result of more than 10 events, cut after the tenth.
C15_Witness ==
    /\ op = "risks_socket_payload"
    /\ Len(args.events) > 10
    /\ Len(ret.events) = 10
    /\ ret.events[10].debris_id = args.events[10].debris_id
    /\ ret.events[1].risk_level >= ret.events[10].risk_level

C16_WitnessBatch ==
    /\ op = "batch_collision_check"
    /\ Len(args.debris_list) = 2
    /\ Len(ret.candidate_debris) < 2
    /\ Len(ret.collisions) = 1
    /\ ret.debris_list = args.debris_list

\* C17: the recommendation is "execute" iff efficiency > 0.05 and
\* safety_margin_km > 0.5; otherwise "review" iff efficiency > 0.02;
\* otherwise "inefficient".
C17_RecommendationRule ==
    (op = "evaluate_maneuver_safety" /\ ret.raises = "none") =>
        LET safety_margin == Get(args.maneuver, "safety_margin_km", 0)
            execute == RatLess(<<1, 20>>, ret.efficiency) /\ safety_margin > 50
            review  == ~execute /\ RatLess(<<1, 50>>, ret.efficiency)
        IN  /\ ret.recommendation \in {"execute", "review", "inefficient"}
            /\ ret.recommendation = "execute" <=> execute
            /\ ret.recommendation = "review" <=> review
            /\ ret.recommendation = "inefficient" <=> (~execute /\ ~review)

\* C17 witness: efficiency 0.5 km/kg with a margin of exactly 0.5 km is
\* "review".
C17_Witness ==
    /\ op = "evaluate_maneuver_safety"
    /\ ret.raises = "none"
    /\ RatLess(<<1, 20>>, ret.efficiency)
    /\ Get(args.maneuver, "safety_margin_km", 0) = 50
    /\ ret.recommendation = "review"

\* C18: the call never divides by zero; with a positive fuel cost the
\* efficiency is safety_margin_km / fuel_cost_kg; and a plan with
\* fuel_cost_kg = 0 and a positive safety margin has an efficiency above
\* 0.05 (and so above 0.02).
C18_EfficiencyWithEpsilon ==
    op = "evaluate_maneuver_safety" =>
        LET safety_margin == Get(args.maneuver, "safety_margin_km", 0)
            has_fuel_cost == "fuel_cost_kg" \in DOMAIN args.maneuver
        IN  /\ ret.raises = "none"
            /\ (has_fuel_cost /\ args.maneuver.fuel_cost_kg > 0)
                    => RatEq(ret.efficiency, <<safety_margin * 10, args.maneuver.fuel_cost_kg>>)
            /\ (has_fuel_cost /\ args.maneuver.fuel_cost_kg = 0 /\ safety_margin > 0)
                    => RatLess(<<1, 20>>, ret.efficiency)

\* xs can be obtained from ys by leaving entries out
RECURSIVE C19_IsSubsequence(_, _)
C19_IsSubsequence(xs, ys) ==
    IF xs = <<>> THEN TRUE
    ELSE IF ys = <<>> THEN FALSE
    ELSE IF Head(xs) = Head(ys) THEN C19_IsSubsequence(Tail(xs), Tail(ys))
    ELSE C19_IsSubsequence(xs, Tail(ys))

C19_Threshold ==
    IF IsNone(args.threshold_km) THEN COLLISION_THRESHOLD_KM ELSE Val(args.threshold_km)

C19_WitnessTwoEvents ==
    /\ op = "batch_collision_check"
    /\ Len(ret.collisions) = 2
    /\ ret.collisions[1].is_high_risk
    /\ ~ret.collisions[2].is_high_risk
    /\ ret.collisions[2].distance_sq = HIGH_RISK_THRESHOLD_KM * HIGH_RISK_THRESHOLD_KM

C20_Distance(k) == distance_now_sq(args.sat, args.debris_list[k])

\* the number of entries the call is to return
C20_Count == IF args.top_n <= 0 THEN 0 ELSE Min(args.top_n, Len(args.debris_list))

\* positions[i] is the place in the debris list of the i-th entry returned:
\* distinct places, and no object left out is nearer than one returned
C20_SelectsNearest(positions) ==
    /\ \A i, j \in DOMAIN positions : i /= j => positions[i] /= positions[j]
    /\ \A i \in DOMAIN positions :
        /\ ret.nearest[i].debris = args.debris_list[positions[i]]
        /\ ret.nearest[i].distance_now_sq = C20_Distance(positions[i])
    /\ \A q \in 1..Len(args.debris_list) :
        (\A i \in DOMAIN positions : positions[i] /= q) =>
            \A i \in DOMAIN positions : C20_Distance(positions[i]) <= C20_Distance(q)

\* C20: handle_satellite_click returns min(top_n, number of debris) entries,
\* none for top_n <= 0; they are the debris nearest to the satellite now,
\* listed in non-decreasing order of distance.
C20_NearestFirst ==
    op = "handle_satellite_click" =>
        /\ Len(ret.nearest) = C20_Count
        /\ \A i, j \in 1..Len(ret.nearest) :
                i < j => ret.nearest[i].distance_now_sq <= ret.nearest[j].distance_now_sq
        /\ \E positions \in [1..Len(ret.nearest) -> 1..Len(args.debris_list)] :
                C20_SelectsNearest(positions)

\* C20 witness: three debris, the nearest last and the other two at the
\* same distance; top_n = 2 returns the nearest and the first of the two.
C20_Witness ==
    /\ op = "handle_satellite_click"
    /\ args.top_n = 2
    /\ Len(args.debris_list) = 3
    /\ C20_Distance(3) < C20_Distance(1)
    /\ C20_Distance(1) = C20_Distance(2)
    /\ args.debris_list[1] /= args.debris_list[2]
    /\ Len(ret.nearest) = 2
    /\ ret.nearest[1].debris = args.debris_list[3]
    /\ ret.nearest[2].debris = args.debris_list[1]

\* C20 witness: a non-positive top_n on a list that is not empty
C20_WitnessNone ==
    /\ op = "handle_satellite_click"
    /\ args.top_n < 0
    /\ Len(args.debris_list) > 0
    /\ ret.nearest = <<>>

C21_Distance == compute_distance(<<args.sat.x, args.sat.y, args.sat.z>>,
                                 <<args.deb.x, args.deb.y, args.deb.z>>)
C21_RelVelocity == compute_relative_velocity(<<args.sat.vx, args.sat.vy, args.sat.vz>>,
                                             <<args.deb.vx, args.deb.vy, args.deb.vz>>)
C21_Angle == compute_angle_between(<<args.sat.vx, args.sat.vy, args.sat.vz>>,
                                   <<args.deb.vx, args.deb.vy, args.deb.vz>>)

\* C21: the risk level of classify_for_sat_debris for a pair of states is
\* the risk_level of classify_risk_advanced for the pair's distance,
\* relative speed and approach angle.
C21_SameLevelAsAdvanced ==
    op = "classify_for_sat_debris" =>
        ret.risk_level = classify_risk_advanced(C21_Distance, C21_RelVelocity, C21_Angle).risk_level

\* where the two agree: no escalation, or a level that is already 3
C21_AgreesWithoutEscalation ==
    (/\ op = "classify_for_sat_debris"
     /\ ~(C21_RelVelocity > 10 * Kmps /\ C21_Angle > 150) \/ ret.risk_level = 3)
        => ret.risk_level = classify_risk_advanced(C21_Distance, C21_RelVelocity, C21_Angle).risk_level

\* the score with base = max(distance term, base_tca x time_factor)
C22_ScoreWith(time_factor) ==
    LET base == Max(distance_term(args.distance),
                    (base_tca_of(Val(args.distance_at_tca)) * time_factor) \div FP)
    IN  Max(0, Min(FP, weighted_sum(base, args.rel_velocity, args.angle, args.altitude_diff)))

\* C22: whenever distance_at_tca is provided, the score is the one with
\* base = max(distance term, base_tca x time_factor); time_factor is in
\* [1, 1.5] and is 1 for tca_seconds < 0 and for tca_seconds >= 259200; with
\* tca_seconds not supplied the score lies between those for the factors 1
\* and 1.5.
C22_TcaTermTakesPart ==
    (op = "predict_risk_from_features" /\ ~IsNone(args.distance_at_tca)) =>
        IF IsNone(args.tca_seconds)
        THEN C22_ScoreWith(FP) <= ret /\ ret <= C22_ScoreWith((FP * 3) \div 2)
        ELSE LET tca_seconds == Val(args.tca_seconds)
                 time_factor == time_factor_of(tca_seconds)
             IN  /\ FP <= time_factor /\ time_factor <= (FP * 3) \div 2
                 /\ (tca_seconds < 0 \/ tca_seconds >= 259200) => time_factor = FP
                 /\ ret = C22_ScoreWith(time_factor)

\* the part of C22 that holds: with tca_seconds supplied
C22_TcaTermWithTcaSeconds ==
    (op = "predict_risk_from_features" /\ ~IsNone(args.distance_at_tca)
        /\ ~IsNone(args.tca_seconds)) =>
        LET tca_seconds == Val(args.tca_seconds)
            time_factor == time_factor_of(tca_seconds)
        IN  /\ FP <= time_factor /\ time_factor <= (FP * 3) \div 2
            /\ (tca_seconds < 0 \/ tca_seconds >= 259200) => time_factor = FP
            /\ ret = C22_ScoreWith(time_factor)

\* C23: time_of_closest_approach never divides by zero, and for a pair with
\* |v_rel|^2 < 1e-12 it returns tca_seconds = 0 and the current distance
\* |r_rel0| as distance_at_tca.
C23_StationaryPair ==
    op = "time_of_closest_approach" =>
        /\ ret.tca_seconds[2] /= 0
        /\ ret.distance_at_tca_sq[2] /= 0
        /\ C9_Stationary =>
            /\ RatEq(ret.tca_seconds, RatInt(0))
            /\ RatEq(ret.distance_at_tca_sq, RatInt(NormSq(C9_r_rel0)))

\* C23 witness: a pair 3 km or more apart that closes in at less than
\* 1e-6 km/s; and a pair with no relative velocity at all.
C23_Witness ==
    /\ op = "time_of_closest_approach"
    /\ C9_Stationary
    /\ C9_Closing
    /\ NormSq(C9_r_rel0) >= 9
    /\ RatEq(ret.tca_seconds, RatInt(0))

C23_WitnessAtRest ==
    /\ op = "time_of_closest_approach"
    /\ NormSq(C9_v_rel) = 0
    /\ NormSq(C9_r_rel0) > 0
    /\ RatEq(ret.distance_at_tca_sq, RatInt(NormSq(C9_r_rel0)))

\* C24: severity is 1 for distance_at_tca <= 1 km and
\* clamp((50 - distance_at_tca) / 50, 0, 1) otherwise; dv lies in
\* [0.0005, 0.05] km/s and does not grow with distance_at_tca; confidence
\* lies in [0.4, 0.98].
C24_SeverityMagnitudeConfidence ==
    op = "maneuver_magnitude" =>
        LET quotient == ((50 * Km - args.dist_at_tca) * FP) \div (50 * Km)
        IN  /\ args.dist_at_tca <= 1 * Km => ret.severity = FP
            /\ args.dist_at_tca > 1 * Km =>
                    ret.severity = (IF quotient < 0 THEN 0 ELSE IF quotient > FP THEN FP ELSE quotient)
            /\ 50000 <= ret.dv_mag /\ ret.dv_mag <= 5000000
            /\ \A farther \in TcaDistances :
                    farther >= args.dist_at_tca => dv_mag_of(severity_of(farther)) <= ret.dv_mag
            /\ 4000 <= ret.confidence /\ ret.confidence <= 9800

\* C24 witness: beyond 50 km the severity is 0, the magnitude 0.0005 km/s
\* and the confidence 0.6; at 1 km the severity is 1 and the magnitude
\* 0.05 km/s.
C24_Witness ==
    /\ op = "maneuver_magnitude"
    /\ args.dist_at_tca > 50 * Km
    /\ ret.severity = 0
    /\ ret.dv_mag = 50000
    /\ ret.confidence = 6000

C24_WitnessNear ==
    /\ op = "maneuver_magnitude"
    /\ args.dist_at_tca = 1 * Km
    /\ ret.severity = FP
    /\ ret.dv_mag = 5000000
    /\ ret.confidence = 9500

\* the handler caught an exception that is not a client disconnect
C25_CaughtError == caught \notin {"none", "WebSocketDisconnect", "uncaught"}

\* C25: when the scan or the send raises an exception other than a client
\* disconnect, the handler has closed the connection with code 1011 and has
\* ended; afterwards no payload is delivered and no scan step is taken.
C25_ErrorClosesWith1011 ==
    /\ [](C25_CaughtError => (stream_pc = "done" /\ close_code = Some(1011)))
    /\ [][C25_CaughtError => (~PayloadDelivered /\ UNCHANGED scanVars /\ payload' = payload)]_vars

\* C25 witness: the scan raised TypeError while the subscriber was connected
C25_Witness ==
    /\ caught = "TypeError"
    /\ raised = "TypeError"
    /\ ws_client = "connected"
    /\ stream_pc = "done"
    /\ close_code = Some(1011)

\* C25 witness: send_json raised an exception other than WebSocketDisconnect
C25_WitnessSend ==
    /\ caught = "Exception"
    /\ pc = "returned"
    /\ stream_pc = "done"
    /\ close_code = Some(1011)

C26_r1 == <<args.pos1.x, args.pos1.y, args.pos1.z>>
C26_v1 == <<args.vel1.vx, args.vel1.vy, args.vel1.vz>>
C26_r2 == <<args.pos2.x, args.pos2.y, args.pos2.z>>
C26_v2 == <<args.vel2.vx, args.vel2.vy, args.vel2.vz>>
C26_r_rel0 == Sub(C26_r2, C26_r1)
C26_v_rel == Sub(C26_v2, C26_v1)

\* the unclamped closest approach -(r_rel0 . v_rel) / |v_rel|^2 lies in
\* [0, time_window_sec]
C26_UnclampedInWindow ==
    /\ NormSq(C26_v_rel) > 0
    /\ -Dot(C26_r_rel0, C26_v_rel) >= 0
    /\ -Dot(C26_r_rel0, C26_v_rel) <= args.time_window_sec * NormSq(C26_v_rel)

\* both results of time_of_closest_approach, in lowest terms
C26_SameAsTimeOfClosestApproach ==
    LET linear == time_of_closest_approach(C26_r1, C26_v1, C26_r2, C26_v2)
    IN  /\ ret.time_to_closest = Quotient(linear.tca_seconds[1], linear.tca_seconds[2])
        /\ ret.min_distance_sq = Quotient(linear.distance_at_tca_sq[1], linear.distance_at_tca_sq[2])

\* time in [0, time_window_sec], minimum distance <= current distance, and
\* (0, current distance) below 1e-10
C26_RangeAndGuard ==
    /\ RatLeq(RatInt(0), ret.time_to_closest)
    /\ RatLeq(ret.time_to_closest, RatInt(args.time_window_sec))
    /\ RatLeq(ret.min_distance_sq, RatInt(NormSq(C26_r_rel0)))
    /\ NormSq(C26_v_rel) < PARALLEL_EPS =>
        /\ ret.time_to_closest = RatInt(0)
        /\ ret.min_distance_sq = RatInt(NormSq(C26_r_rel0))

C26_WitnessInWindow ==
    /\ op = "compute_closest_approach"
    /\ NormSq(C26_v_rel) >= PARALLEL_EPS
    /\ C26_UnclampedInWindow
    /\ RatLess(RatInt(0), ret.time_to_closest)
    /\ RatLess(RatInt(0), ret.min_distance_sq)
    /\ C26_SameAsTimeOfClosestApproach

\* |x|
C27_Abs(x) == IF x < 0 THEN -x ELSE x

\* a field of a burn is the baseline field scaled by the share dv / total_dv
\* of that burn: with both rounded to their last digit,
\* field = base_field * s + e1 and delta_v_mps = total_dv * s + e2 with
\* |e1|, |e2| <= 1/2 unit, hence
\* |field * total_dv - base_field * delta_v_mps| <= (total_dv + base_field) / 2
C27_ScaledByShare(field, base_field, burn, base) ==
    2 * C27_Abs(field * base.delta_v_mps - base_field * burn.delta_v_mps)
        <= base.delta_v_mps + base_field

\* C27: suggest_multi_burn_maneuver returns, for every num_burns >= 1,
\* exactly num_burns burns in sequence order whose delta_v_mps are
\* non-increasing with geometric weights 1, 1/2, 1/4, ... (each burn is half
\* of the one before, up to the rounding of both to 0.01), each carrying the
\* baseline direction_vector, and whose burn_duration_s, fuel_cost_kg and
\* safety_margin_km are the baseline values scaled by that burn's share of
\* the baseline delta-v.
C27_BurnsOfMultiBurnPlan ==
    op = "suggest_multi_burn_maneuver" =>
        /\ Len(ret) = args.num_burns
        /\ \A k \in 1..(Len(ret) - 1) :
            /\ ret[k + 1].delta_v_mps <= ret[k].delta_v_mps
            /\ 2 * C27_Abs(2 * ret[k + 1].delta_v_mps - ret[k].delta_v_mps) <= 3
        /\ \A k \in 1..Len(ret) :
            /\ ret[k].direction_vector = args.base.direction_vector
            /\ C27_ScaledByShare(ret[k].burn_duration_s, args.base.burn_duration_s,
                                 ret[k], args.base)
            /\ C27_ScaledByShare(ret[k].fuel_cost_kg, args.base.fuel_cost_kg,
                                 ret[k], args.base)
            /\ C27_ScaledByShare(ret[k].safety_margin_km, args.base.safety_margin_km,
                                 ret[k], args.base)

\* a plan of several burns whose fields were rounded away from the exact share
C27_Witness ==
    /\ op = "suggest_multi_burn_maneuver"
    /\ args.num_burns = 3
    /\ Len(ret) = 3
    /\ ret[3].delta_v_mps < ret[2].delta_v_mps
    /\ ret[3].fuel_cost_kg * args.base.delta_v_mps
           # args.base.fuel_cost_kg * ret[3].delta_v_mps

\* a plan of more burns than a double has significant bits
C27_WitnessSaturated ==
    /\ op = "suggest_multi_burn_maneuver"
    /\ args.num_burns > DOUBLE_SIGNIFICAND_BITS
    /\ Len(ret) = args.num_burns
    /\ ret[Len(ret)].delta_v_mps = 0

\* the distance the planner was given for the request in args, in metres
C28_Distance(threat_data) == Get(threat_data, "distance_km", 10 * Km)

\* the delta_v_mps of the plan of POST /plan for this body
C28_NormalDeltaV(threat_data) ==
    maneuver_plan_of("m-1", "sat-1", threat_data).delta_v_mps

\* 4 * 15 * (1 + 2.5 * urgency) in cm/s, with
\* urgency = clamp((15 - threat_distance_km) / 15, 0, 1)
C28_FourDeltaV(distance) ==
    6000 + (IF distance >= 15000 THEN 0 ELSE IF distance <= 0 THEN 15000
            ELSE 15000 - distance)

\* C28: suggest_maneuver yields delta_v_mps = 15 x (1 + 2.5 x urgency) with
\* urgency = clamp((15 - threat_distance_km)/15, 0, 1), rounded to 0.01 m/s:
\* the value lies in [15, 52.5] m/s and is non-increasing in
\* threat_distance_km; the emergency endpoint never returns a plan with
\* delta_v_mps below 40 m/s nor below the plan of the normal endpoint for
\* the same threat data.
C28_DeltaVOfPlans ==
    /\ op = "plan_maneuver" =>
        LET distance == C28_Distance(args.threat_data)
            dv       == ret.data.delta_v_mps
        IN  /\ 4 * dv - C28_FourDeltaV(distance) \in -2..2
            /\ dv >= 1500
            /\ dv <= 5250
            /\ \A other \in ThreatDataSet :
                C28_Distance(other) >= distance => C28_NormalDeltaV(other) <= dv
    /\ op = "emergency_maneuver_plan" =>
        /\ ret.data.delta_v_mps >= 4000
        /\ ret.data.delta_v_mps <= 5250
        /\ ret.data.delta_v_mps >= C28_NormalDeltaV(args.threat_data)

\* an emergency plan for a threat farther away than 5 km
C28_Witness ==
    /\ op = "emergency_maneuver_plan"
    /\ C28_Distance(args.threat_data) > 5 * Km
    /\ ret.data.delta_v_mps = 4000
    /\ C28_NormalDeltaV(args.threat_data) < 4000

\* a normal plan between the ends of the range
C28_WitnessNormal ==
    /\ op = "plan_maneuver"
    /\ ret.data.delta_v_mps > 1500
    /\ ret.data.delta_v_mps < 4000

\* C29: acknowledging an alert that does not exist, in the remote store or
\* in the local cache, is answered 404 "Alert not found" instead of a
\* successful acknowledgement.  (No request removes an alert: one that is in
\* no store after the request was in none before it.)
C29_MissingAlertIs404 ==
    (op = "acknowledge_alert" /\ ~AlertExists(args.alert_id))
        => ret.status_code = 404

\* the threads inside a database section
C30_Inside == {t \in Threads : thread_pc[t] \in {"section", "execute"}}

\* the rows of the table with this id
C30_Rows(table, record_id) ==
    {i \in 1..Len(cache[table]) : cache[table][i].id = Some(record_id)}

\* thread t executes the statement of an upsert that the table accepts
C30_Upserts(t) ==
    /\ thread_pc[t] = "execute"
    /\ thread_pc'[t] = "idle"
    /\ DOMAIN filtered_of(thread_call[t]) # {"id"}

\* C30: all LocalCache operations run under one process-wide lock: at most
\* one thread is inside a database section at any time; the lock is held by
\* the thread inside and by no thread outside, so it is released on every
\* exit path (the early return of upsert and the SQL error path included);
\* no thread waits for the lock while holding it, and a held lock is always
\* released again (no deadlock); an upsert leaves exactly one row for its
\* id, and no table ever holds two rows for one id.
C30_OneLockForAllOperations ==
    /\ [](/\ Cardinality(C30_Inside) <= 1
          /\ \A t \in Threads : (lock = Some(t)) <=> (t \in C30_Inside)
          /\ \A table \in Tables : \A record_id \in AlertIds :
                Cardinality(C30_Rows(table, record_id)) <= 1)
    /\ [][\A t \in Threads :
            C30_Upserts(t) =>
                Cardinality({i \in 1..Len(cache'[thread_call[t].table]) :
                    cache'[thread_call[t].table][i].id = Some(thread_call[t].record.id)}) = 1]_vars
    /\ \A t \in Threads : (lock = Some(t)) ~> (lock = None)

\* two upserts for one id are in flight, one inside and one waiting, and
\* the table already holds a row for the id
C30_Witness ==
    /\ thread_pc[1] = "execute"
    /\ thread_pc[2] = "with_lock"
    /\ thread_call[2].name = "upsert"
    /\ thread_call[2].table = "alerts"
    /\ "id" \in DOMAIN thread_call[2].record
    /\ thread_call[1].record.id = thread_call[2].record.id
    /\ Cardinality(C30_Rows("alerts", thread_call[1].record.id)) = 1

\* a thread is about to leave upsert by the early return while another waits
C30_WitnessEarlyReturn ==
    /\ thread_pc[1] = "section"
    /\ thread_call[1].name = "upsert"
    /\ "id" \notin DOMAIN filtered_of(thread_call[1])
    /\ thread_pc[2] = "with_lock"

====
